---- MODULE Spec2Model ----
(***************************************************************************)
(* Conversation store (PostgresStore over the threads / messages tables)   *)
(* and response orchestrator (RoboticsChatbotServer.respond).              *)
(*                                                                         *)
(* Tables are sets of rows, so that primary keys and unique constraints    *)
(* are properties enforced by the commit step and not by the data          *)
(* structure.  A handler is split at its awaits on the database: what it   *)
(* read before an await may be stale when it commits (READ COMMITTED).     *)
(* The session is created with autoflush=False, so every INSERT / UPDATE   *)
(* of a handler reaches the database in its commit.                        *)
(***************************************************************************)
EXTENDS Integers, Sequences, FiniteSets, TLC

(***************************************************************************)
(* Bounds of the model                                                     *)
(***************************************************************************)
NumProcs == 2      \* concurrently handled requests
MaxRows  == 3      \* cap on the rows of the messages table
MaxSeq   == 3      \* cap on the sequence numbers assigned
MaxUuid  == 2      \* cap on the uuid4() identifiers generated
MaxCalls == 3      \* cap on the requests of a run with overlapping requests
MaxEvents == 2     \* cap on the events the agent streams in one respond
MaxHistory == 22   \* cap on the messages of a thread whose history respond loads
MaxTicks == 3      \* cap on the steps of the clock
MaxRejects == 2    \* cap on the requests refused beyond the limit in one window
TicksPerSecond == 2   \* resolution of the clock
MaxSecrets == 2    \* cap on the client secrets generated

Procs == 1..NumProcs

(***************************************************************************)
(* Identifiers                                                             *)
(***************************************************************************)
None     == "None"
Users    == {"A", "B"}
\* what a caller may pass as user_id: a user, None or the empty string
Callers  == Users \cup {None, ""}
\* Python truthiness of an Optional[str], as in "if user_id:"
Truthy(x) == x \notin {None, ""}
ThreadIds == {"t1", "t2"}
FAKE_ID  == "__fake_id__"
ClientItemIds == {"m1"}
UuidPool == <<"u1", "u2", "u3", "u4">>
\* the n-th value returned by uuid4(): never one that was returned before
uuid4(n) == UuidPool[n]

(***************************************************************************)
(* Text: a string is a sequence of runs <<class, count>>; adjacent runs    *)
(* have different classes and every count is positive.  Class "ws" is      *)
(* whitespace, "ch" any other character, "dot" the character '.'.          *)
(***************************************************************************)
Empty == <<>>
Chars(c, n) == IF n > 0 THEN << <<c, n>> >> ELSE Empty

Concat(a, b) ==
    IF a = Empty THEN b
    ELSE IF b = Empty THEN a
    ELSE IF a[Len(a)][1] = b[1][1]
         THEN SubSeq(a, 1, Len(a) - 1)
              \o << <<b[1][1], a[Len(a)][2] + b[1][2]>> >>
              \o Tail(b)
         ELSE a \o b

RECURSIVE StrLen(_)
StrLen(s) == IF s = Empty THEN 0 ELSE s[1][2] + StrLen(Tail(s))

\* s[:n]
RECURSIVE Slice(_, _)
Slice(s, n) ==
    IF s = Empty \/ n <= 0 THEN Empty
    ELSE IF s[1][2] >= n THEN << <<s[1][1], n>> >>
    ELSE <<s[1]>> \o Slice(Tail(s), n - s[1][2])

\* s.strip()
Strip(s) ==
    LET l == IF s # Empty /\ s[1][1] = "ws" THEN Tail(s) ELSE s
    IN  IF l # Empty /\ l[Len(l)][1] = "ws" THEN SubSeq(l, 1, Len(l) - 1) ELSE l

MaxContentLen == 100000
TitleLen      == 50
Ellipsis      == Chars("dot", 3)

\* texts the callers of the store send
ShortText == Chars("ch", 5)
OtherText == Chars("ch", 7)
HugeText  == Chars("ch", MaxContentLen + 1)
PlaceholderAdd  == Chars("ch", 25)   \* "Attribute content missing"
PlaceholderSave == Chars("ch", 10)   \* "No content"
\* str(raw_content) of a non-empty list of blocks: some non-empty text
Repr(raw) == Chars("ch", 30 + Len(raw))

(***************************************************************************)
(* Thread items as the callers hand them to the store.  content is the     *)
(* list of content blocks; a block may or may not have a text attribute.   *)
(***************************************************************************)
TextBlock(t) == [has_text |-> TRUE, text |-> t]
OtherBlock   == [has_text |-> FALSE, text |-> Empty]

Item(id, type, role, content) ==
    [id |-> id, type |-> type, role |-> role, content |-> content]

\* role is the item's own role attribute (None when it has none), read only
\* for an item that is neither a user nor an assistant message
UserItem(id, blocks)      == Item(id, "user_message", None, blocks)
AssistantItem(id, blocks) == Item(id, "assistant_message", None, blocks)

\* what the callers send: a user message of 60 characters in two blocks, an
\* assistant message of 7, and a user message over the length limit
WriterItems ==
    UNION { { UserItem(id, <<TextBlock(Chars("ch", 30)), TextBlock(Chars("ch", 30))>>),
              AssistantItem(id, <<TextBlock(OtherText)>>),
              UserItem(id, <<TextBlock(HugeText)>>) }
            : id \in ClientItemIds \cup {FAKE_ID} }

\* ThreadMetadata as handed to save_thread: metadata keys user_id and title
ThreadMetadata(id, user_id, title) ==
    [id |-> id, metadata |-> [user_id |-> user_id, title |-> title]]

(***************************************************************************)
(* State                                                                   *)
(***************************************************************************)
VARIABLES
    threads,      \* rows of table threads
    messages,     \* rows of table messages
    issued,       \* thread id -> the user it was generated for (None: not yet)
    nuuid,        \* number of uuid4() item identifiers generated so far
    pc,           \* per request: the await it is suspended at ("idle": none)
    local,        \* per request: the local variables of the suspended handler
    ret,          \* per request: the outcome of its last completed call
    insertLog,    \* per thread: identifiers inserted, in order, while no row of it was deleted
    hadDeletion,  \* per thread: a row of it was deleted
    ncalls,       \* number of requests started (counted where requests overlap)
    rpc,          \* respond: where the generator stands ("idle": not called)
    rinput,       \* respond: its input argument (NoInput or a user message item)
    rhistory,     \* respond: thread_items, the history it loaded
    revents,      \* respond: the events it has yielded, in order
    rexc,         \* respond: the exception raised inside it (NoExc: none)
    rraised,      \* respond: an exception left the generator
    rloads,       \* respond: calls of store.load_thread_items
    rruns,        \* respond: calls of Runner.run_streamed
    rsnap,        \* respond: the messages table when respond was called
    clock,        \* the time of day, in ticks
    nticks,       \* number of times the clock was advanced
    rate_limit_store,  \* user -> (request_count, window_start), absent at first
    rate_result,  \* outcome of the last rate-limit check
    window_checks,     \* per user: checks made in the window the store holds
    window_allowed,    \* per user: checks allowed in the window the store holds
    response,     \* the last error response of the /chatkit endpoint
    session_store,   \* _session_store: client secret -> session
    nsecret,         \* number of client secrets generated so far
    session_result,  \* the outcome of the last session operation
    session_log      \* per client secret: whom it was issued for, until when,
                     \* and whether a refresh or a revocation took it away

storeVars == <<threads, messages, issued, nuuid, pc, local, ret, insertLog, hadDeletion>>
respondVars == <<rpc, rinput, rhistory, revents, rexc, rraised, rloads, rruns, rsnap>>
rateVars == <<clock, nticks, rate_limit_store, rate_result, window_checks, window_allowed,
              response>>
sessionVars == <<session_store, nsecret, session_result, session_log>>
vars == <<storeVars, ncalls, respondVars, rateVars, sessionVars>>

NoLocal == [op |-> None]
NoRet   == [op |-> None, err |-> None]
NoExc   == [type |-> None, words |-> {}]

InitRespond ==
    /\ rpc = "idle"
    /\ rinput = [id |-> None, type |-> None, role |-> None, content |-> <<>>]
    /\ rhistory = <<>>
    /\ revents = <<>>
    /\ rexc = NoExc
    /\ rraised = FALSE
    /\ rloads = 0
    /\ rruns = 0
    /\ rsnap = {}

\* a key the defaultdict does not hold yet
NoEntry == [present |-> FALSE, request_count |-> 0, window_start |-> 0]

NoRateResult == [op |-> None, err |-> None, user_id |-> None, retry_after |-> 0]

NoResponse == [status_code |-> 0, type |-> None, message |-> None]

InitRate ==
    /\ response = NoResponse
    /\ clock = 0
    /\ nticks = 0
    /\ rate_limit_store = [u \in Users |-> NoEntry]
    /\ rate_result = NoRateResult
    /\ window_checks = [u \in Users |-> 0]
    /\ window_allowed = [u \in Users |-> 0]

ClientSecrets == 1..MaxSecrets

NoSession == [present |-> FALSE, user_id |-> None, expires_at |-> 0]
NoSessionResult ==
    [op |-> None, status_code |-> 0, client_secret |-> 0, user_id |-> None,
     new_secret |-> 0, raced |-> FALSE]
NoSessionLog == [user_id |-> None, expires_at |-> 0, gone |-> FALSE]

InitSession ==
    /\ session_store = [k \in ClientSecrets |-> NoSession]
    /\ nsecret = 0
    /\ session_result = NoSessionResult
    /\ session_log = [k \in ClientSecrets |-> NoSessionLog]

Init ==
    /\ threads = {}
    /\ messages = {}
    /\ issued = [t \in ThreadIds |-> None]
    /\ nuuid = 0
    /\ pc = [p \in Procs |-> "idle"]
    /\ local = [p \in Procs |-> NoLocal]
    /\ ret = [p \in Procs |-> NoRet]
    /\ insertLog = [t \in ThreadIds |-> <<>>]
    /\ hadDeletion = [t \in ThreadIds |-> FALSE]
    /\ ncalls = 0
    /\ InitRespond
    /\ InitRate
    /\ InitSession

(***************************************************************************)
(* The schema: constraints the database checks when a transaction commits  *)
(***************************************************************************)
Roles == {"user", "assistant"}

\* a messages table without its primary key
pk_messages_missing(msgs, row) == TRUE

pk_messages(msgs, row) == \A m \in msgs : m.message_id # row.message_id

fk_messages_thread(thrs, row) == \E t \in thrs : t.thread_id = row.thread_id

\* a schema without the unique constraint
uq_missing(msgs, row) == TRUE

uq_messages_thread_sequence(msgs, row) ==
    \A m \in msgs : ~(m.thread_id = row.thread_id
                      /\ m.sequence_number = row.sequence_number)

\* a schema without the check on the role
chk_messages_role_missing(row) == TRUE

chk_messages_role(row) == row.role \in Roles

chk_messages_content_length(row) ==
    StrLen(row.content) > 0 /\ StrLen(row.content) <= MaxContentLen

chk_messages_sequence_positive(row) == row.sequence_number >= 1

pk_threads(thrs, row) == \A t \in thrs : t.thread_id # row.thread_id

\* INSERT INTO messages with the unique constraint not enforced
MessageInsertUnchecked(msgs, thrs, row) ==
    /\ pk_messages(msgs, row)
    /\ fk_messages_thread(thrs, row)
    /\ chk_messages_role(row)
    /\ chk_messages_content_length(row)
    /\ chk_messages_sequence_positive(row)

\* INSERT INTO messages
MessageInsertOk(msgs, thrs, row) ==
    /\ pk_messages(msgs, row)
    /\ fk_messages_thread(thrs, row)
    /\ uq_messages_thread_sequence(msgs, row)
    /\ chk_messages_role(row)
    /\ chk_messages_content_length(row)
    /\ chk_messages_sequence_positive(row)

\* a foreign key without ON DELETE CASCADE that lets the rows stay
NoCascade(msgs, thread_id) == msgs

\* DELETE FROM threads WHERE thread_id = :id, with ON DELETE CASCADE on messages
CascadeDelete(msgs, thread_id) == { m \in msgs : m.thread_id # thread_id }

(***************************************************************************)
(* Extraction of role, content and identifier from a thread item           *)
(***************************************************************************)
ExtractRole(item) ==
    IF item.type = "assistant_message" THEN "assistant"
    ELSE IF item.type = "user_message" THEN "user"
    ELSE IF item.role # None THEN item.role
    ELSE "user"

RECURSIVE JoinText(_)
JoinText(blocks) ==
    IF blocks = <<>> THEN Empty
    ELSE Concat(IF blocks[1].has_text THEN blocks[1].text ELSE Empty,
                JoinText(Tail(blocks)))

ExtractContent(item, placeholder) ==
    LET joined == JoinText(item.content)
    IN  IF joined # Empty THEN joined
        ELSE IF item.content # <<>> THEN Repr(item.content)
        ELSE placeholder

\* n identifiers were generated before this call
\* an identifier stored as the item carries it
FinalItemIdKept(item, n) == item.id

FinalItemId(item, n) == IF item.id = FAKE_ID THEN uuid4(n + 1) ELSE item.id

UuidsAfter(item, n) == IF item.id = FAKE_ID THEN n + 1 ELSE n

SetMax(S) == CHOOSE x \in S : \A y \in S : y <= x

\* SELECT sequence_number ... ORDER BY sequence_number DESC LIMIT 1; 0 is None
\* the number of messages of the thread taken for its last sequence number
LastSeqByCount(msgs, thread_id) ==
    Cardinality({ r \in msgs : r.thread_id = thread_id })

LastSeq(msgs, thread_id) ==
    LET seqs == { m.sequence_number : m \in { r \in msgs : r.thread_id = thread_id } }
    IN  IF seqs = {} THEN 0 ELSE SetMax(seqs)

\* a next sequence number that skips one
NextSeqSkips(last_seq) == IF last_seq # 0 THEN last_seq + 2 ELSE 1

NextSeq(last_seq) == IF last_seq # 0 THEN last_seq + 1 ELSE 1

\* a title that gets the ellipsis from 50 characters on
DeriveTitleFrom50(content) ==
    LET title == Strip(Slice(content, TitleLen))
    IN  IF StrLen(content) >= TitleLen THEN Concat(title, Ellipsis) ELSE title

DeriveTitle(content) ==
    LET title == Strip(Slice(content, TitleLen))
    IN  IF StrLen(content) > TitleLen THEN Concat(title, Ellipsis) ELSE title

(***************************************************************************)
(* add_thread_item, step by step                                           *)
(***************************************************************************)
\* up to session.add(message)
add_thread_item_select(msgs, thread_id, item, n) ==
    [op        |-> "add_thread_item",
     thread_id |-> thread_id,
     item_id   |-> FinalItemId(item, n),
     role      |-> ExtractRole(item),
     content   |-> ExtractContent(item, PlaceholderAdd),
     next_seq  |-> NextSeq(LastSeq(msgs, thread_id)),
     set_title |-> FALSE,
     title     |-> Empty]

NeedsTitle(l) == l.next_seq = 1 /\ l.role = "user"

\* a title assignment that does not look at the title the thread has
add_thread_item_title_always(thrs, l) ==
    IF \E t \in thrs : t.thread_id = l.thread_id
    THEN [l EXCEPT !.set_title = TRUE, !.title = DeriveTitle(l.content)]
    ELSE l

\* the SELECT of the thread and the title assignment
add_thread_item_title(thrs, l) ==
    IF \E t \in thrs : t.thread_id = l.thread_id /\ t.title = Empty
    THEN [l EXCEPT !.set_title = TRUE, !.title = DeriveTitle(l.content)]
    ELSE l

MessageRow(l) ==
    [message_id      |-> l.item_id,
     thread_id       |-> l.thread_id,
     role            |-> l.role,
     content         |-> l.content,
     sequence_number |-> l.next_seq]

\* UPDATE threads SET title: updated_at gets its onupdate value, the time
SetTitle(thrs, thread_id, title) ==
    { IF t.thread_id = thread_id THEN [t EXCEPT !.title = title, !.updated_at = clock] ELSE t
      : t \in thrs }

\* session.commit() of a handler that added a message (and maybe set the
\* title): UPDATE threads, then INSERT INTO messages, in one transaction
\* the trigger the Thread model names for updated_at ("Last message
\* timestamp (auto-updated by trigger)"): a message row written into a thread
\* sets the thread's updated_at to the time of the statement
trg_messages_touch_thread(thrs, thread_id) ==
    { IF t.thread_id = thread_id THEN [t EXCEPT !.updated_at = clock] ELSE t
      : t \in thrs }

insert_commit(msgs, thrs, l) ==
    LET row == MessageRow(l)
        err == IF l.set_title /\ ~(\E t \in thrs : t.thread_id = l.thread_id)
               THEN "StaleDataError"
               ELSE IF ~MessageInsertOk(msgs, thrs, row) THEN "IntegrityError"
               ELSE None
    IN  [err      |-> err,
         messages |-> IF err = None THEN msgs \cup {row} ELSE msgs,
         threads  |-> IF err # None THEN thrs
                      ELSE trg_messages_touch_thread(
                               IF l.set_title THEN SetTitle(thrs, l.thread_id, l.title)
                               ELSE thrs, l.thread_id)]

(***************************************************************************)
(* Bookkeeping shared by the actions                                       *)
(***************************************************************************)
Ret(op, err, l) ==
    [op |-> op, err |-> err, thread_id |-> l.thread_id,
     item_id |-> l.item_id, next_seq |-> l.next_seq]

Finish(p, r) ==
    /\ pc' = [pc EXCEPT ![p] = "idle"]
    /\ local' = [local EXCEPT ![p] = NoLocal]
    /\ ret' = [ret EXCEPT ![p] = r]

Suspend(p, at, l) ==
    /\ pc' = [pc EXCEPT ![p] = at]
    /\ local' = [local EXCEPT ![p] = l]
    /\ ret' = ret

Inserting == { p \in Procs : pc[p] \in {"add_thread_item_title", "add_thread_item_commit",
                                          "save_item_seq", "save_item_insert"} }

\* the caps of the model on the table size and on the sequence numbers
RoomForRow(thread_id) ==
    /\ Cardinality(messages) + Cardinality(Inserting) < MaxRows
    /\ LastSeq(messages, thread_id) < MaxSeq

RoomForUuid(item) == item.id = FAKE_ID => nuuid < MaxUuid

LogInsert(err, thread_id, item_id) ==
    /\ insertLog' = IF err = None /\ ~hadDeletion[thread_id]
                    THEN [insertLog EXCEPT ![thread_id] = Append(@, item_id)]
                    ELSE insertLog
    /\ hadDeletion' = hadDeletion

LogDelete(after) ==
    LET gone(t) == \E m \in messages \ after : m.thread_id = t
    IN  /\ hadDeletion' = [t \in ThreadIds |-> hadDeletion[t] \/ gone(t)]
        /\ insertLog' = [t \in ThreadIds |->
                           IF hadDeletion[t] \/ gone(t) THEN <<>> ELSE insertLog[t]]

(***************************************************************************)
(* add_thread_item: the call run without interleaving, and its steps       *)
(***************************************************************************)
AddThreadItem(p, thread_id, item) ==
    /\ \A q \in Procs : pc[q] = "idle"
    /\ RoomForRow(thread_id) /\ RoomForUuid(item)
    /\ LET l1 == add_thread_item_select(messages, thread_id, item, nuuid)
           l2 == IF NeedsTitle(l1) THEN add_thread_item_title(threads, l1) ELSE l1
           r  == insert_commit(messages, threads, l2)
       IN  /\ messages' = r.messages
           /\ threads' = r.threads
           /\ nuuid' = UuidsAfter(item, nuuid)
           /\ Finish(p, Ret("add_thread_item", r.err, l2))
           /\ LogInsert(r.err, thread_id, l2.item_id)
    /\ UNCHANGED issued

AddThreadItemSelect(p, thread_id, item) ==
    /\ pc[p] = "idle"
    /\ RoomForRow(thread_id) /\ RoomForUuid(item)
    /\ LET l == add_thread_item_select(messages, thread_id, item, nuuid)
       IN  Suspend(p, IF NeedsTitle(l) THEN "add_thread_item_title"
                      ELSE "add_thread_item_commit", l)
    /\ nuuid' = UuidsAfter(item, nuuid)
    /\ UNCHANGED <<threads, messages, issued, insertLog, hadDeletion>>

AddThreadItemTitle(p) ==
    /\ pc[p] = "add_thread_item_title"
    /\ Suspend(p, "add_thread_item_commit", add_thread_item_title(threads, local[p]))
    /\ UNCHANGED <<threads, messages, issued, nuuid, insertLog, hadDeletion>>

AddThreadItemCommit(p) ==
    /\ pc[p] = "add_thread_item_commit"
    /\ LET r == insert_commit(messages, threads, local[p])
       IN  /\ messages' = r.messages
           /\ threads' = r.threads
           /\ Finish(p, Ret("add_thread_item", r.err, local[p]))
           /\ LogInsert(r.err, local[p].thread_id, local[p].item_id)
    /\ UNCHANGED <<issued, nuuid>>

(***************************************************************************)
(* save_item (upsert)                                                      *)
(***************************************************************************)
\* extraction and the SELECT of the existing message
save_item_select(msgs, thread_id, item, n) ==
    [op        |-> "save_item",
     thread_id |-> thread_id,
     item_id   |-> FinalItemId(item, n),
     role      |-> ExtractRole(item),
     content   |-> ExtractContent(item, PlaceholderSave),
     next_seq  |-> 0,
     set_title |-> FALSE,
     title     |-> Empty,
     existing  |-> { m \in msgs : m.thread_id = thread_id
                                  /\ m.message_id = FinalItemId(item, n) }]

\* an UPDATE branch that replaces the content and keeps the role
save_item_update_content(msgs, l) ==
    LET old     == CHOOSE m \in l.existing : TRUE
        current == { m \in msgs : m.message_id = old.message_id }
        write(m) == [m EXCEPT !.content = l.content]
        err == IF current = {} THEN "StaleDataError"
               ELSE IF \E m \in current : ~chk_messages_content_length(write(m))
                    THEN "IntegrityError"
               ELSE None
    IN  [err |-> err,
         messages |-> IF err = None
                      THEN (msgs \ current) \cup { write(m) : m \in current }
                      ELSE msgs]

\* session.commit() of the UPDATE branch: only the attributes whose value
\* changed are written, to the row with the primary key that was loaded
save_item_update(msgs, l) ==
    LET old     == CHOOSE m \in l.existing : TRUE
        dirty   == old.content # l.content \/ old.role # l.role
        current == { m \in msgs : m.message_id = old.message_id }
        write(m) == [m EXCEPT !.content = IF old.content # l.content THEN l.content ELSE @,
                              !.role = IF old.role # l.role THEN l.role ELSE @]
        err == IF ~dirty THEN None
               ELSE IF current = {} THEN "StaleDataError"
               ELSE IF \E m \in current : ~(chk_messages_role(write(m))
                                            /\ chk_messages_content_length(write(m)))
                    THEN "IntegrityError"
               ELSE None
    IN  [err |-> err,
         messages |-> IF err = None /\ dirty
                      THEN (msgs \ current) \cup { write(m) : m \in current }
                      ELSE msgs]

\* the SELECT of the last sequence number, in the INSERT branch
save_item_seq(msgs, l) == [l EXCEPT !.next_seq = NextSeq(LastSeq(msgs, l.thread_id))]

\* the identifier the item carried: generated ones stand for the placeholder
Carried(item_id) == IF item_id \in ClientItemIds THEN item_id ELSE FAKE_ID

\* updated: the UPDATE branch ran; repeat: the caller's previous call was a
\* successful save_item of an item with the same identifier on the same thread
SaveItemRet(p, err, l) ==
    [op |-> "save_item", err |-> err, thread_id |-> l.thread_id,
     item_id |-> l.item_id, next_seq |-> l.next_seq,
     updated |-> Cardinality(l.existing) = 1,
     repeat  |-> /\ ret[p].op = "save_item"
                 /\ ret[p].err = None
                 /\ ret[p].thread_id = l.thread_id
                 /\ Carried(ret[p].item_id) = Carried(l.item_id)]

SaveItem(p, thread_id, item) ==
    /\ \A q \in Procs : pc[q] = "idle"
    /\ RoomForUuid(item)
    /\ LET l == save_item_select(messages, thread_id, item, nuuid)
       IN  /\ Cardinality(l.existing) = 0 => RoomForRow(thread_id)
           /\ nuuid' = UuidsAfter(item, nuuid)
           /\ IF Cardinality(l.existing) > 1
              THEN /\ Finish(p, SaveItemRet(p, "MultipleResultsFound", l))
                   /\ UNCHANGED <<messages, threads, insertLog, hadDeletion>>
              ELSE IF Cardinality(l.existing) = 1
              THEN LET r == save_item_update(messages, l)
                   IN  /\ messages' = r.messages
                       /\ threads' = IF r.messages # messages
                                     THEN trg_messages_touch_thread(threads, thread_id)
                                     ELSE threads
                       /\ Finish(p, SaveItemRet(p, r.err, [l EXCEPT !.next_seq =
                                     (CHOOSE m \in l.existing : TRUE).sequence_number]))
                       /\ UNCHANGED <<insertLog, hadDeletion>>
              ELSE LET l2 == save_item_seq(messages, l)
                       r  == insert_commit(messages, threads, l2)
                   IN  /\ messages' = r.messages
                       /\ threads' = r.threads
                       /\ Finish(p, SaveItemRet(p, r.err, l2))
                       /\ LogInsert(r.err, thread_id, l2.item_id)
    /\ UNCHANGED issued

SaveItemSelect(p, thread_id, item) ==
    /\ pc[p] = "idle"
    /\ RoomForUuid(item)
    /\ LET l == save_item_select(messages, thread_id, item, nuuid)
       IN  /\ Cardinality(l.existing) = 0 => RoomForRow(thread_id)
           /\ IF Cardinality(l.existing) > 1
              THEN Finish(p, SaveItemRet(p, "MultipleResultsFound", l))
              ELSE Suspend(p, IF Cardinality(l.existing) = 1 THEN "save_item_update"
                              ELSE "save_item_seq", l)
    /\ nuuid' = UuidsAfter(item, nuuid)
    /\ UNCHANGED <<threads, messages, issued, insertLog, hadDeletion>>

SaveItemUpdate(p) ==
    /\ pc[p] = "save_item_update"
    /\ LET l == local[p]
           r == save_item_update(messages, l)
       IN  /\ messages' = r.messages
           /\ threads' = IF r.messages # messages
                         THEN trg_messages_touch_thread(threads, l.thread_id)
                         ELSE threads
           /\ Finish(p, SaveItemRet(p, r.err, [l EXCEPT !.next_seq =
                         (CHOOSE m \in l.existing : TRUE).sequence_number]))
    /\ UNCHANGED <<issued, nuuid, insertLog, hadDeletion>>

SaveItemSeq(p) ==
    /\ pc[p] = "save_item_seq"
    /\ Suspend(p, "save_item_insert", save_item_seq(messages, local[p]))
    /\ UNCHANGED <<threads, messages, issued, nuuid, insertLog, hadDeletion>>

SaveItemInsert(p) ==
    /\ pc[p] = "save_item_insert"
    /\ LET r == insert_commit(messages, threads, local[p])
       IN  /\ messages' = r.messages
           /\ threads' = r.threads
           /\ Finish(p, SaveItemRet(p, r.err, local[p]))
           /\ LogInsert(r.err, local[p].thread_id, local[p].item_id)
    /\ UNCHANGED <<issued, nuuid>>

(***************************************************************************)
(* delete_thread_item                                                      *)
(***************************************************************************)
delete_thread_item(msgs, thread_id, item_id) ==
    { m \in msgs : ~(m.thread_id = thread_id /\ m.message_id = item_id) }

DeleteThreadItem(p, thread_id, item_id) ==
    /\ pc[p] = "idle"
    /\ messages' = delete_thread_item(messages, thread_id, item_id)
    /\ Finish(p, [op |-> "delete_thread_item", err |-> None, thread_id |-> thread_id,
                  item_id |-> item_id, next_seq |-> 0])
    /\ LogDelete(delete_thread_item(messages, thread_id, item_id))
    /\ UNCHANGED <<threads, issued, nuuid>>

(***************************************************************************)
(* delete_thread                                                           *)
(***************************************************************************)
\* an authorization SELECT that forgets the owner
delete_thread_exists(thrs, thread_id, user_id) ==
    Truthy(user_id) => \E t \in thrs : t.thread_id = thread_id

\* the authorization SELECT: a falsy user_id skips it
delete_thread_authorized(thrs, thread_id, user_id) ==
    Truthy(user_id) =>
        \E t \in thrs : t.thread_id = thread_id /\ t.user_id = user_id

\* DELETE FROM threads and commit
delete_thread_exec(thrs, msgs, thread_id) ==
    [threads  |-> { t \in thrs : t.thread_id # thread_id },
     messages |-> CascadeDelete(msgs, thread_id)]

\* cascaded: the number of messages that went with the thread
DeleteThreadRet(err, thread_id, user_id, cascaded) ==
    [op |-> "delete_thread", err |-> err, thread_id |-> thread_id, item_id |-> None,
     next_seq |-> 0, user_id |-> user_id, cascaded |-> cascaded]

DeleteThread(p, thread_id, user_id) ==
    /\ \A q \in Procs : pc[q] = "idle"
    /\ IF ~delete_thread_authorized(threads, thread_id, user_id)
       THEN /\ Finish(p, DeleteThreadRet("PermissionError", thread_id, user_id, 0))
            /\ UNCHANGED <<threads, messages, insertLog, hadDeletion>>
       ELSE LET r == delete_thread_exec(threads, messages, thread_id)
            IN  /\ threads' = r.threads
                /\ messages' = r.messages
                /\ Finish(p, DeleteThreadRet(None, thread_id, user_id,
                                             Cardinality(messages \ r.messages)))
                /\ LogDelete(r.messages)
    /\ UNCHANGED <<issued, nuuid>>

DeleteThreadCheck(p, thread_id, user_id) ==
    /\ pc[p] = "idle"
    /\ IF ~delete_thread_authorized(threads, thread_id, user_id)
       THEN Finish(p, DeleteThreadRet("PermissionError", thread_id, user_id, 0))
       ELSE Suspend(p, "delete_thread_exec",
                    [op |-> "delete_thread", thread_id |-> thread_id, user_id |-> user_id])
    /\ UNCHANGED <<threads, messages, issued, nuuid, insertLog, hadDeletion>>

DeleteThreadExec(p) ==
    /\ pc[p] = "delete_thread_exec"
    /\ LET l == local[p]
           r == delete_thread_exec(threads, messages, l.thread_id)
       IN  /\ threads' = r.threads
           /\ messages' = r.messages
           /\ Finish(p, DeleteThreadRet(None, l.thread_id, l.user_id,
                                         Cardinality(messages \ r.messages)))
           /\ LogDelete(r.messages)
    /\ UNCHANGED <<issued, nuuid>>

(***************************************************************************)
(* save_thread                                                             *)
(***************************************************************************)
\* an owner taken from the metadata alone
ResolveUserNoContext(thread, context_user) == thread.metadata.user_id

\* the owner of a new thread: metadata["user_id"], else context["user_id"]
ResolveUser(thread, context_user) ==
    IF Truthy(thread.metadata.user_id) THEN thread.metadata.user_id ELSE context_user

\* the SELECT of the existing thread and the branch taken
save_thread_select(thrs, thread, context_user) ==
    [op        |-> "save_thread",
     thread_id |-> thread.id,
     item_id   |-> None,
     next_seq  |-> 0,
     existing  |-> \E t \in thrs : t.thread_id = thread.id,
     user_id   |-> ResolveUser(thread, context_user),
     metadata  |-> thread.metadata,
     now       |-> clock]

ThreadRow(l) ==
    [thread_id       |-> l.thread_id,
     user_id         |-> l.user_id,
     title           |-> l.metadata.title,
     thread_metadata |-> [l.metadata EXCEPT !.user_id = l.user_id],
     updated_at      |-> l.now]

\* an update branch that leaves updated_at to the row
save_thread_commit_keeps_time(thrs, l) ==
    IF l.existing
    THEN IF \E t \in thrs : t.thread_id = l.thread_id
         THEN [err |-> "UnboundLocalError",
               threads |-> { IF t.thread_id = l.thread_id
                             THEN [t EXCEPT !.thread_metadata = l.metadata] ELSE t
                             : t \in thrs }]
         ELSE [err |-> "StaleDataError", threads |-> thrs]
    ELSE IF pk_threads(thrs, [thread_id |-> l.thread_id])
         THEN [err |-> None,
               threads |-> thrs \cup {[thread_id       |-> l.thread_id,
                                       user_id         |-> l.user_id,
                                       title           |-> l.metadata.title,
                                       thread_metadata |-> [l.metadata EXCEPT !.user_id = l.user_id],
                                       updated_at      |-> l.now]}]
         ELSE [err |-> "IntegrityError", threads |-> thrs]

\* session.commit() and the log line after it.  The log line of the update
\* branch reads user_id, which only the insert branch assigns.
save_thread_commit(thrs, l) ==
    IF l.existing
    THEN IF \E t \in thrs : t.thread_id = l.thread_id
         THEN [err |-> "UnboundLocalError",
               threads |-> { IF t.thread_id = l.thread_id
                             THEN [t EXCEPT !.thread_metadata = l.metadata,
                                            !.updated_at = l.now] ELSE t
                             : t \in thrs }]
         ELSE [err |-> "StaleDataError", threads |-> thrs]
    ELSE IF pk_threads(thrs, ThreadRow(l))
         THEN [err |-> None, threads |-> thrs \cup {ThreadRow(l)}]
         ELSE [err |-> "IntegrityError", threads |-> thrs]

\* an identifier comes from generate_thread_id (uuid4): it names the thread
\* of one user, also when a deleted thread is saved again
IssuedTo(l) == l.existing \/ ~Truthy(l.user_id) \/ issued[l.thread_id] \in {None, l.user_id}

Issue(l) ==
    issued' = IF ~l.existing /\ Truthy(l.user_id)
              THEN [issued EXCEPT ![l.thread_id] = l.user_id] ELSE issued

SaveThread(p, thread, context_user) ==
    /\ \A q \in Procs : pc[q] = "idle"
    /\ LET l == save_thread_select(threads, thread, context_user)
       IN  /\ IssuedTo(l)
           /\ Issue(l)
           /\ IF ~l.existing /\ ~Truthy(l.user_id)
              THEN /\ Finish(p, Ret("save_thread", "ValueError", l))
                   /\ threads' = threads
              ELSE LET r == save_thread_commit(threads, l)
                   IN  /\ threads' = r.threads
                       /\ Finish(p, Ret("save_thread", r.err, l))
    /\ UNCHANGED <<messages, nuuid, insertLog, hadDeletion>>

SaveThreadSelect(p, thread, context_user) ==
    /\ pc[p] = "idle"
    /\ LET l == save_thread_select(threads, thread, context_user)
       IN  /\ IssuedTo(l)
           /\ Issue(l)
           /\ IF ~l.existing /\ ~Truthy(l.user_id)
              THEN Finish(p, Ret("save_thread", "ValueError", l))
              ELSE Suspend(p, "save_thread_commit", l)
    /\ UNCHANGED <<threads, messages, nuuid, insertLog, hadDeletion>>

SaveThreadCommit(p) ==
    /\ pc[p] = "save_thread_commit"
    /\ LET r == save_thread_commit(threads, local[p])
       IN  /\ threads' = r.threads
           /\ Finish(p, Ret("save_thread", r.err, local[p]))
    /\ UNCHANGED <<messages, issued, nuuid, insertLog, hadDeletion>>

(***************************************************************************)
(* Reads                                                                   *)
(***************************************************************************)
NotFound == [found |-> FALSE]

\* load_thread without the ownership filter
OwnedByAnyone(t, user_id) == TRUE

\* the ownership filter: a falsy user_id adds none
OwnedBy(t, user_id) == Truthy(user_id) => t.user_id = user_id

load_thread(thrs, thread_id, user_id) ==
    LET rows == { t \in thrs : t.thread_id = thread_id /\ OwnedBy(t, user_id) }
    IN  IF Cardinality(rows) # 1 THEN NotFound
        ELSE LET t == CHOOSE r \in rows : TRUE
             IN  [found |-> TRUE, id |-> t.thread_id, metadata |-> t.thread_metadata]

\* rows in ORDER BY sequence_number ASC / DESC
RECURSIVE OrderBySeq(_, _)
OrderBySeq(rows, order) ==
    IF rows = {} THEN <<>>
    ELSE LET first == CHOOSE r \in rows : \A o \in rows :
                         IF order = "asc" THEN r.sequence_number <= o.sequence_number
                         ELSE r.sequence_number >= o.sequence_number
         IN  <<first>> \o OrderBySeq(rows \ {first}, order)

\* cursors: none, a sequence number (int or numeric string), a message id
NoCursor      == [kind |-> "none", seq |-> 0, id |-> None]
SeqCursor(k)  == [kind |-> "seq", seq |-> k, id |-> None]
IdCursor(id)  == [kind |-> "id", seq |-> 0, id |-> id]

\* after_seq; 0 stands for None (and is as falsy)
\* a cursor that is used only when it is a number
AfterSeqIntOnly(msgs, after) ==
    IF after.kind = "seq" THEN after.seq ELSE 0

AfterSeq(msgs, after) ==
    IF after.kind = "seq" THEN after.seq
    ELSE IF after.kind = "id"
    THEN LET found == { m \in msgs : m.message_id = after.id }
         IN  IF Cardinality(found) = 1
             THEN (CHOOSE m \in found : TRUE).sequence_number ELSE 0
    ELSE 0

\* a stored row as the thread item handed back
RowItem(m) ==
    [id |-> m.message_id, thread_id |-> m.thread_id,
     type |-> IF m.role = "user" THEN "user_message" ELSE "assistant_message",
     text |-> m.content]

RECURSIVE RowItems(_)
RowItems(rows) ==
    IF rows = <<>> THEN <<>>
    ELSE (IF rows[1].role \in Roles THEN <<RowItem(rows[1])>> ELSE <<>>)
         \o RowItems(Tail(rows))

EmptyPage == [data |-> <<>>, has_more |-> FALSE, after |-> None]

\* a cursor lookup with scalar_one(): it raises also when no row matches
CursorLookupFailsOnMissing(msgs, after) ==
    after.kind = "id" /\ Cardinality({ m \in msgs : m.message_id = after.id }) # 1

\* scalar_one_or_none() on the cursor lookup raises when several rows match
CursorLookupFails(msgs, after) ==
    after.kind = "id" /\ Cardinality({ m \in msgs : m.message_id = after.id }) > 1

\* a cursor filter that keeps the cursor row
PastCursorInclusive(seq, after_seq, order) ==
    IF order = "asc" THEN seq >= after_seq ELSE seq <= after_seq

\* the pagination filter on sequence_number
PastCursor(seq, after_seq, order) ==
    IF order = "asc" THEN seq > after_seq ELSE seq < after_seq

load_thread_items(msgs, thread_id, limit, after, order) ==
    IF CursorLookupFails(msgs, after) THEN EmptyPage ELSE
    LET after_seq == AfterSeq(msgs, after)
        rows == { m \in msgs :
                    /\ m.thread_id = thread_id
                    /\ (after_seq # 0 => PastCursor(m.sequence_number, after_seq, order)) }
        sorted   == OrderBySeq(rows, order)
        has_more == Len(sorted) > limit
        page     == IF has_more THEN SubSeq(sorted, 1, limit) ELSE sorted
    IN  [data     |-> RowItems(page),
         has_more |-> has_more,
         after    |-> IF has_more /\ page # <<>>
                      THEN page[Len(page)].message_id ELSE None]

load_item(msgs, thread_id, item_id) ==
    LET rows == { m \in msgs : m.thread_id = thread_id /\ m.message_id = item_id }
    IN  IF Cardinality(rows) # 1 THEN NotFound
        ELSE LET m == CHOOSE r \in rows : TRUE
             IN  IF m.role \in Roles THEN [found |-> TRUE, item |-> RowItem(m)]
                 ELSE NotFound

\* Page(...) of chatkit.types as this store builds and reads it: the fields
\* data, has_more and after, each with a default; other keywords are dropped
Page(kw) ==
    [data     |-> IF "data" \in DOMAIN kw THEN kw.data ELSE <<>>,
     has_more |-> IF "has_more" \in DOMAIN kw THEN kw.has_more ELSE FALSE,
     after    |-> IF "after" \in DOMAIN kw THEN kw.after ELSE None]

\* user_id, else context["user_id"]
load_threads_user(user_id, context_user) ==
    IF user_id = None THEN context_user ELSE user_id

\* the updated_at of the cursor thread, -1 for None
AfterTimestamp(thrs, after) ==
    LET found == { t \in thrs : t.thread_id = after }
    IN  IF Truthy(after) /\ found # {} THEN (CHOOSE t \in found : TRUE).updated_at ELSE -1

\* the rows the query selects, before ORDER BY and LIMIT
load_threads_rows(thrs, user_id, after, order) ==
    LET after_timestamp == AfterTimestamp(thrs, after)
    IN  { t \in thrs :
            /\ t.user_id = user_id
            /\ after_timestamp # -1 =>
                   IF order = "desc" THEN t.updated_at < after_timestamp
                   ELSE t.updated_at > after_timestamp }

\* the orders ORDER BY updated_at may return the rows in
OrderedByUpdatedAt(rows, order) ==
    { s \in [1..Cardinality(rows) -> rows] :
        /\ \A i, j \in 1..Cardinality(rows) : i # j => s[i] # s[j]
        /\ \A i, j \in 1..Cardinality(rows) : i < j =>
               IF order = "desc" THEN s[i].updated_at >= s[j].updated_at
               ELSE s[i].updated_at <= s[j].updated_at }

\* from LIMIT limit + 1 to the return statement
load_threads_page(sorted, limit) ==
    LET fetched  == SubSeq(sorted, 1, IF Len(sorted) > limit + 1 THEN limit + 1 ELSE Len(sorted))
        has_more == Len(fetched) > limit
        page     == IF has_more THEN SubSeq(fetched, 1, limit) ELSE fetched
        items    == [i \in 1..Len(page) |->
                       [id |-> page[i].thread_id, metadata |-> page[i].thread_metadata]]
        next_cursor == IF has_more /\ page # <<>> THEN page[Len(page)].thread_id ELSE None
    IN  Page([items |-> items, next_cursor |-> next_cursor])

(***************************************************************************)
(* Read calls                                                              *)
(***************************************************************************)
LoadThread(p, thread_id, user_id) ==
    /\ pc[p] = "idle"
    /\ Finish(p, [op |-> "load_thread", err |-> None, thread_id |-> thread_id,
                  user_id |-> user_id,
                  result |-> load_thread(threads, thread_id, user_id)])
    /\ UNCHANGED <<threads, messages, issued, nuuid, insertLog, hadDeletion>>

\* a client that lists the messages of a thread in ascending order: the first
\* call has no cursor, a following call passes the cursor of the page before;
\* collected is what the client has received since the call without cursor
FollowsPage(p, thread_id, limit) ==
    /\ ret[p].op = "load_thread_items"
    /\ ret[p].thread_id = thread_id
    /\ ret[p].limit = limit
    /\ ret[p].page.has_more

LoadThreadItems(p, thread_id, limit, follow) ==
    /\ pc[p] = "idle"
    /\ follow => FollowsPage(p, thread_id, limit)
    /\ LET after == IF follow THEN IdCursor(ret[p].page.after) ELSE NoCursor
           page  == load_thread_items(messages, thread_id, limit, after, "asc")
       IN  Finish(p, [op |-> "load_thread_items", err |-> None, thread_id |-> thread_id,
                      limit |-> limit, after |-> after, page |-> page,
                      collected |-> IF follow THEN ret[p].collected \o page.data
                                    ELSE page.data])
    /\ UNCHANGED <<threads, messages, issued, nuuid, insertLog, hadDeletion>>

\* load_threads.  chain: the call has no cursor, or it passes the cursor of
\* the call before it in a chain; collected is what the chain returned
LoadThreads(p, user_id, context_user, limit, after, order) ==
    /\ pc[p] = "idle"
    /\ LET owner  == load_threads_user(user_id, context_user)
           follow == /\ ret[p].op = "load_threads" /\ ret[p].chain
                     /\ ret[p].user_id = owner /\ ret[p].limit = limit
                     /\ ret[p].order = order
                     /\ after # None /\ ret[p].page.after = after
       IN  IF ~Truthy(owner)
           THEN Finish(p, [op |-> "load_threads", err |-> None, user_id |-> owner,
                           limit |-> limit, after |-> after, order |-> order,
                           page |-> Page([items |-> <<>>, next_cursor |-> None]),
                           chain |-> FALSE, collected |-> <<>>])
           ELSE \E sorted \in OrderedByUpdatedAt(load_threads_rows(threads, owner, after, order),
                                                 order) :
                  LET page == load_threads_page(sorted, limit)
                  IN  Finish(p, [op |-> "load_threads", err |-> None, user_id |-> owner,
                                 limit |-> limit, after |-> after, order |-> order,
                                 page |-> page,
                                 chain |-> after = None \/ follow,
                                 collected |-> IF follow THEN ret[p].collected \o page.data
                                               ELSE page.data])
    /\ UNCHANGED <<threads, messages, issued, nuuid, insertLog, hadDeletion>>

LoadItem(p, thread_id, item_id) ==
    /\ pc[p] = "idle"
    /\ Finish(p, [op |-> "load_item", err |-> None, thread_id |-> thread_id,
                  item_id |-> item_id,
                  result |-> load_item(messages, thread_id, item_id)])
    /\ UNCHANGED <<threads, messages, issued, nuuid, insertLog, hadDeletion>>

(***************************************************************************)
(* RoboticsChatbotServer.respond, an async generator: a step runs it up to *)
(* the next await or yield.  It is called on thread t1.                    *)
(***************************************************************************)
MaxMessageLen == 100000
HistoryLimit  == 20

RespondThread == "t1"

\* the input argument: None, or a UserMessageItem with its content blocks
InputContents ==
    { <<>>,
      <<OtherBlock>>,
      <<TextBlock(Chars("ws", 3))>>,
      <<TextBlock(Chars("ws", MaxMessageLen)), OtherBlock, TextBlock(Chars("ws", 1))>>,
      <<TextBlock(ShortText)>>,
      <<TextBlock(Chars("ws", 1)), TextBlock(ShortText)>>,
      <<TextBlock(Chars("ch", MaxMessageLen))>>,
      <<TextBlock(Chars("ch", MaxMessageLen)), TextBlock(Chars("ch", 1))>> }

\* input=None: no item
NoInput == Item(None, None, None, <<>>)

RespondInputs == {NoInput} \cup { UserItem("in1", blocks) : blocks \in InputContents }

\* events of the stream
ErrorEvent(message, allow_retry) ==
    [type |-> "error", message |-> message, allow_retry |-> allow_retry]
\* the n-th event of the stream stream_agent_response produces
AgentEvent(n) == [type |-> "agent", message |-> "", allow_retry |-> FALSE, n |-> n]

\* the agent events respond has yielded so far
Relayed(events) == Cardinality({ k \in 1..Len(events) : events[k].type = "agent" })

\* exceptions: the class raised and the words str(e).lower() contains
Bases(type) ==
    IF type \in {"InputGuardrailTripwireTriggered", "OutputGuardrailTripwireTriggered"}
    THEN {type, "AgentsException", "Exception", "BaseException"}
    ELSE {type, "Exception", "BaseException"}

\* "except cls" catches an exception of class type
Catches(cls, type) == cls \in Bases(type)

ExcWords == { {}, {"quota"}, {"quota", "429"}, {"rate limit"}, {"429", "timeout"},
              {"timeout"}, {"connection"} }

Raisable ==
    { [type |-> t, words |-> w] :
        t \in {"InputGuardrailTripwireTriggered", "OutputGuardrailTripwireTriggered",
               "RuntimeError"},
        w \in ExcWords }

\* message_content: the text of the blocks that have one, joined
MessageContent(input) == JoinText(input.content)

\* a length check that lets one character too many through
TooLongByTwo(message_content) == StrLen(message_content) > MaxMessageLen + 1

TooLong(message_content) == StrLen(message_content) > MaxMessageLen

\* the validation at the head of respond: the error event it yields, or
\* NoExc when the input passes
Validate(input) ==
    IF input = NoInput THEN ErrorEvent("No message received", FALSE)
    ELSE LET message_content == MessageContent(input)
         IN  IF message_content = Empty \/ Strip(message_content) = Empty
             THEN ErrorEvent("Message content cannot be empty", FALSE)
             ELSE IF TooLong(message_content)
             THEN ErrorEvent("Message content exceeds maximum length of 100,000 characters",
                             FALSE)
             ELSE NoExc

\* a handler that looks for the rate-limit words before the quota words
ErrorEventForRateFirst(words) ==
    IF "rate limit" \in words \/ "429" \in words
    THEN ErrorEvent("Too many requests. Please wait a moment.", TRUE)
    ELSE IF "quota" \in words
    THEN ErrorEvent("AI quota exceeded. Please try again later.", FALSE)
    ELSE IF "timeout" \in words \/ "connection" \in words
    THEN ErrorEvent("Network error. Please check your connection.", TRUE)
    ELSE ErrorEvent("Something went wrong. Please try again.", TRUE)

\* the error event of the handler "except Exception as e"
ErrorEventFor(words) ==
    IF "quota" \in words
    THEN ErrorEvent("AI quota exceeded. Please try again later.", FALSE)
    ELSE IF "rate limit" \in words \/ "429" \in words
    THEN ErrorEvent("Too many requests. Please wait a moment.", TRUE)
    ELSE IF "timeout" \in words \/ "connection" \in words
    THEN ErrorEvent("Network error. Please check your connection.", TRUE)
    ELSE ErrorEvent("Something went wrong. Please try again.", TRUE)

\* a handler that catches the exceptions of the agents library only
CatchAllAgentsOnly(type) == Catches("AgentsException", type)

\* the outer handler of respond: except Exception
CatchAll(type) == Catches("Exception", type)

\* an exception raised in the outer try block
Raise(e) ==
    /\ rexc' = e
    /\ IF CatchAll(e.type)
       THEN rpc' = "except" /\ rraised' = rraised
       ELSE rpc' = "done" /\ rraised' = TRUE

\* yield ErrorEvent(...) followed by the end of the generator
YieldErrorAndEnd(ev) ==
    /\ revents' = Append(revents, ev)
    /\ rpc' = "done"

RespondCall(input) ==
    /\ rpc = "idle"
    /\ \A p \in Procs : pc[p] = "idle"
    /\ rpc' = "validate"
    /\ rinput' = input
    /\ rsnap' = messages
    /\ UNCHANGED <<rhistory, revents, rexc, rraised, rloads, rruns>>
    /\ UNCHANGED <<storeVars, ncalls, rateVars, sessionVars>>

RespondValidate ==
    /\ rpc = "validate"
    /\ IF Validate(rinput) # NoExc
       THEN YieldErrorAndEnd(Validate(rinput))
       ELSE rpc' = "load_history" /\ revents' = revents
    /\ UNCHANGED <<rinput, rhistory, rexc, rraised, rloads, rruns, rsnap>>
    /\ UNCHANGED <<storeVars, ncalls, rateVars, sessionVars>>

\* store.load_thread_items(thread.id, after=None, limit=20, order="asc"); it
\* returns an empty page when the database fails
RespondLoadHistory(db_fails) ==
    /\ rpc = "load_history"
    /\ rloads' = rloads + 1
    /\ rhistory' = IF db_fails THEN EmptyPage.data
                   ELSE load_thread_items(messages, RespondThread, HistoryLimit,
                                          NoCursor, "asc").data
    /\ rpc' = "translate"
    /\ UNCHANGED <<rinput, revents, rexc, rraised, rruns, rsnap>>
    /\ UNCHANGED <<storeVars, ncalls, rateVars, sessionVars>>

\* simple_to_agent_input(thread_items)
RespondTranslate ==
    /\ rpc = "translate"
    /\ rpc' = "run_agent"
    /\ UNCHANGED <<rinput, rhistory, revents, rexc, rraised, rloads, rruns, rsnap>>
    /\ UNCHANGED <<storeVars, ncalls, rateVars, sessionVars>>

RespondTranslateRaises(e) ==
    /\ rpc = "translate"
    /\ Raise(e)
    /\ UNCHANGED <<rinput, rhistory, revents, rloads, rruns, rsnap>>
    /\ UNCHANGED <<storeVars, ncalls, rateVars, sessionVars>>

\* Runner.run_streamed(self.agent, input=agent_inputs, context=agent_context)
RespondRunAgent ==
    /\ rpc = "run_agent"
    /\ rruns' = rruns + 1
    /\ rpc' = "relay"
    /\ UNCHANGED <<rinput, rhistory, revents, rexc, rraised, rloads, rsnap>>
    /\ UNCHANGED <<storeVars, ncalls, rateVars, sessionVars>>

RespondRunAgentRaises(e) ==
    /\ rpc = "run_agent"
    /\ rruns' = rruns + 1
    /\ Raise(e)
    /\ UNCHANGED <<rinput, rhistory, revents, rloads, rsnap>>
    /\ UNCHANGED <<storeVars, ncalls, rateVars, sessionVars>>

\* async for event in stream_agent_response(...): yield event
\* a relay loop that yields each event of the stream twice
RespondRelayTwice ==
    /\ rpc = "relay"
    /\ Len(revents) < MaxEvents
    /\ revents' = revents \o << AgentEvent(Relayed(revents) + 1),
                                 AgentEvent(Relayed(revents) + 1) >>
    /\ UNCHANGED <<rpc, rinput, rhistory, rexc, rraised, rloads, rruns, rsnap>>
    /\ UNCHANGED <<storeVars, ncalls, rateVars, sessionVars>>

\* "async for event in stream_agent_response(...): yield event": the next
\* event of the stream is yielded as it is
RespondRelay ==
    /\ rpc = "relay"
    /\ Len(revents) < MaxEvents
    /\ revents' = Append(revents, AgentEvent(Relayed(revents) + 1))
    /\ UNCHANGED <<rpc, rinput, rhistory, rexc, rraised, rloads, rruns, rsnap>>
    /\ UNCHANGED <<storeVars, ncalls, rateVars, sessionVars>>

\* the agent run holds the store (AgentContext.store) and commits an
\* assistant message through it while it streams
RespondAgentPersists ==
    /\ rpc = "relay"
    /\ AddThreadItem(1, RespondThread, AssistantItem(FAKE_ID, <<TextBlock(OtherText)>>))
    /\ UNCHANGED <<ncalls, respondVars, sessionVars, rateVars>>

\* the stream is exhausted: respond logs success and ends
RespondCompletes ==
    /\ rpc = "relay"
    /\ rpc' = "done"
    /\ UNCHANGED <<rinput, rhistory, revents, rexc, rraised, rloads, rruns, rsnap>>
    /\ UNCHANGED <<storeVars, ncalls, rateVars, sessionVars>>

\* a relay loop without the inner try: every exception reaches the outer handler
RespondRelayRaisesOuter(e) ==
    /\ rpc = "relay"
    /\ Raise(e) /\ revents' = revents
    /\ UNCHANGED <<rinput, rhistory, rloads, rruns, rsnap>>
    /\ UNCHANGED <<storeVars, ncalls, rateVars, sessionVars>>

\* the stream raises: the two guardrail handlers of the inner try, else the
\* outer handler
RespondRelayRaises(e) ==
    /\ rpc = "relay"
    /\ IF Catches("InputGuardrailTripwireTriggered", e.type)
       THEN /\ YieldErrorAndEnd(ErrorEvent("We blocked that message for safety.", FALSE))
            /\ rexc' = e /\ rraised' = rraised
       ELSE IF Catches("OutputGuardrailTripwireTriggered", e.type)
       THEN /\ YieldErrorAndEnd(ErrorEvent("The assistant response was blocked.", FALSE))
            /\ rexc' = e /\ rraised' = rraised
       ELSE Raise(e) /\ revents' = revents
    /\ UNCHANGED <<rinput, rhistory, rloads, rruns, rsnap>>
    /\ UNCHANGED <<storeVars, ncalls, rateVars, sessionVars>>

\* except Exception as e: one error event chosen by the words of str(e)
RespondExcept ==
    /\ rpc = "except"
    /\ YieldErrorAndEnd(ErrorEventFor(rexc.words))
    /\ UNCHANGED <<rinput, rhistory, rexc, rraised, rloads, rruns, rsnap>>
    /\ UNCHANGED <<storeVars, ncalls, rateVars, sessionVars>>

(***************************************************************************)
(* The rate limiter of the /chatkit endpoint                               *)
(***************************************************************************)
RATE_LIMIT_REQUESTS == 60
RATE_LIMIT_WINDOW   == 60 * TicksPerSecond

Entry(request_count, window_start) ==
    [present |-> TRUE, request_count |-> request_count, window_start |-> window_start]

\* rate_limit_store[user_id]: the defaultdict stores (0, datetime.now()) for
\* a key it does not hold
StoreGet(store, user_id, default_now) ==
    IF store[user_id].present THEN store[user_id] ELSE Entry(0, default_now)

\* int(delta.total_seconds()): truncation toward zero
TotalSeconds(ticks) ==
    IF ticks >= 0 THEN ticks \div TicksPerSecond ELSE -((-ticks) \div TicksPerSecond)

\* a limiter that resets the window only after more than the window length
rate_limit_decide_late_reset(now, entry) ==
    IF now - entry.window_start > RATE_LIMIT_WINDOW
    THEN [entry |-> Entry(1, now), err |-> None, retry_after |-> 0, reset |-> TRUE]
    ELSE LET request_count == entry.request_count + 1
             exceeded == request_count > RATE_LIMIT_REQUESTS
         IN  [entry |-> Entry(request_count, entry.window_start),
              err |-> IF exceeded THEN "HTTPException" ELSE None,
              retry_after |-> IF exceeded
                              THEN TotalSeconds(entry.window_start + RATE_LIMIT_WINDOW - now)
                              ELSE 0,
              reset |-> FALSE]

\* the decision on the entry read at time now: the entry to store, the
\* exception raised (429) and its Retry-After header
rate_limit_decide(now, entry) ==
    IF now - entry.window_start >= RATE_LIMIT_WINDOW
    THEN [entry |-> Entry(1, now), err |-> None, retry_after |-> 0, reset |-> TRUE]
    ELSE LET request_count == entry.request_count + 1
             exceeded == request_count > RATE_LIMIT_REQUESTS
         IN  [entry |-> Entry(request_count, entry.window_start),
              err |-> IF exceeded THEN "HTTPException" ELSE None,
              retry_after |-> IF exceeded
                              THEN TotalSeconds(entry.window_start + RATE_LIMIT_WINDOW - now)
                              ELSE 0,
              reset |-> FALSE]

RateResult(user_id, err, retry_after) ==
    [op |-> "rate_limit_middleware", err |-> err, user_id |-> user_id,
     retry_after |-> retry_after]

\* the count of the checks of the window: starts says the check began one
CountCheck(user_id, starts, err) ==
    /\ window_checks' = [window_checks EXCEPT ![user_id] = IF starts THEN 1 ELSE @ + 1]
    /\ window_allowed' = [window_allowed EXCEPT ![user_id] =
                             IF starts THEN 1 ELSE IF err = None THEN @ + 1 ELSE @]

InFlight(user_id) ==
    Cardinality({ p \in Procs : pc[p] = "validate_session" /\ local[p].user_id = user_id })

\* a request with a bearer token arrives and awaits validate_session, which
\* will return user_id
ChatkitEndpoint(p, user_id) ==
    /\ pc[p] = "idle"
    /\ Truthy(user_id) =>
           rate_limit_store[user_id].request_count + InFlight(user_id)
               < RATE_LIMIT_REQUESTS + MaxRejects
    /\ Suspend(p, "validate_session", [op |-> "chatkit_endpoint", user_id |-> user_id])
    /\ UNCHANGED <<threads, messages, issued, nuuid, insertLog, hadDeletion>>
    /\ UNCHANGED <<ncalls, respondVars, sessionVars, rateVars>>

\* a JSONResponse or HTTPException of the endpoint as the client gets it
Response(status_code, type, message) ==
    [status_code |-> status_code, type |-> type, message |-> message]

\* a request without "Authorization: Bearer ...": 401 at once
ChatkitEndpointNoBearer(p, auth_header) ==
    /\ pc[p] = "idle"
    /\ auth_header \in {"absent", "not bearer"}
    /\ response' = Response(401, "authentication_required",
           "Please login to use the chatbot. Authentication is required.")
    /\ UNCHANGED <<storeVars, ncalls, respondVars, sessionVars>>
    /\ UNCHANGED <<clock, nticks, rate_limit_store, rate_result, window_checks,
                   window_allowed>>

\* what the identity authority may answer to get-session
AuthorityAnswers == {"session", "status not 200", "no user", "timeout", "error"}

\* validate_session: the user id, or the HTTPException it raises
validate_session(answer, user_id) ==
    IF answer = "session"
    THEN [err |-> None, status_code |-> 200, detail |-> None, user_id |-> user_id]
    ELSE IF answer = "status not 200"
    THEN [err |-> "HTTPException", status_code |-> 401,
          detail |-> "Invalid or expired session token", user_id |-> None]
    ELSE IF answer = "no user"
    THEN [err |-> "HTTPException", status_code |-> 401,
          detail |-> "Invalid session data", user_id |-> None]
    ELSE IF answer = "timeout"
    THEN [err |-> "HTTPException", status_code |-> 503,
          detail |-> "Authentication service unavailable", user_id |-> None]
    ELSE [err |-> "HTTPException", status_code |-> 500,
          detail |-> "Session validation failed", user_id |-> None]

\* the endpoint's "except Exception" around validate_session
auth_failure_response(v) ==
    IF Catches("Exception", v.err)
    THEN Response(401, "authentication_failed",
                  "Invalid or expired session. Please login again.")
    ELSE Response(v.status_code, "http_exception", v.detail)

\* an endpoint that counts a request against the limit before its session
\* is validated
ValidateSessionFailsCounted(p, answer) ==
    /\ pc[p] = "validate_session"
    /\ answer # "session"
    /\ pc' = [pc EXCEPT ![p] = "idle"]
    /\ local' = [local EXCEPT ![p] = NoLocal]
    /\ response' = auth_failure_response(validate_session(answer, local[p].user_id))
    /\ rate_limit_store' = [rate_limit_store EXCEPT !["A"] =
                               Entry(@.request_count + 1, @.window_start)]
    /\ window_checks' = [window_checks EXCEPT !["A"] = @ + 1]
    /\ UNCHANGED <<threads, messages, issued, nuuid, ret, insertLog, hadDeletion>>
    /\ UNCHANGED <<ncalls, respondVars, sessionVars, clock, nticks, rate_result, window_allowed>>

\* validate_session raises: the endpoint answers before the rate limiter
ValidateSessionFails(p, answer) ==
    /\ pc[p] = "validate_session"
    /\ answer # "session"
    /\ pc' = [pc EXCEPT ![p] = "idle"]
    /\ local' = [local EXCEPT ![p] = NoLocal]
    /\ response' = auth_failure_response(validate_session(answer, local[p].user_id))
    /\ UNCHANGED <<threads, messages, issued, nuuid, ret, insertLog, hadDeletion>>
    /\ UNCHANGED <<ncalls, respondVars, sessionVars, clock, nticks, rate_limit_store, rate_result,
                   window_checks, window_allowed>>

\* a limiter that is suspended between reading the entry and writing it
RateLimitMiddlewareTorn(p, late) ==
    \/ /\ pc[p] = "validate_session"
       /\ Truthy(local[p].user_id)
       /\ pc' = [pc EXCEPT ![p] = "rate_limit_write"]
       /\ local' = [local EXCEPT ![p] =
              [op |-> "rate_limit_middleware", user_id |-> local[p].user_id, now |-> clock,
               entry |-> StoreGet(rate_limit_store, local[p].user_id, clock),
               starts |-> ~rate_limit_store[local[p].user_id].present]]
       /\ UNCHANGED <<threads, messages, issued, nuuid, ret, insertLog, hadDeletion>>
       /\ UNCHANGED <<ncalls, respondVars, sessionVars, rateVars>>
    \/ /\ pc[p] = "rate_limit_write"
       /\ LET l == local[p]
              d == rate_limit_decide(l.now, l.entry)
          IN  /\ rate_limit_store' = [rate_limit_store EXCEPT ![l.user_id] = d.entry]
              /\ rate_result' = RateResult(l.user_id, d.err, d.retry_after)
              /\ CountCheck(l.user_id, l.starts \/ d.reset, d.err)
       /\ pc' = [pc EXCEPT ![p] = "idle"]
       /\ local' = [local EXCEPT ![p] = NoLocal]
       /\ UNCHANGED <<threads, messages, issued, nuuid, ret, insertLog, hadDeletion>>
       /\ UNCHANGED <<ncalls, respondVars, sessionVars, clock, nticks, response>>

\* validate_session returns and the endpoint runs on to its next await: the
\* whole of rate_limit_middleware, which awaits nothing.  late: the clock
\* ticks between datetime.now() and the default of a key not held yet
RateLimitMiddleware(p, late) ==
    /\ pc[p] = "validate_session"
    /\ LET user_id == local[p].user_id
       IN  IF ~Truthy(user_id)
           THEN /\ rate_result' = RateResult(user_id, None, 0)
                /\ pc' = [pc EXCEPT ![p] = "process"]
                /\ UNCHANGED <<local, response>>
                /\ UNCHANGED <<clock, rate_limit_store, window_checks, window_allowed>>
           ELSE LET now   == clock
                    held  == rate_limit_store[user_id].present
                    entry == StoreGet(rate_limit_store, user_id, now + late)
                    d     == rate_limit_decide(now, entry)
                IN  /\ rate_limit_store' = [rate_limit_store EXCEPT ![user_id] = d.entry]
                    /\ clock' = IF held THEN clock ELSE now + late
                    /\ rate_result' = RateResult(user_id, d.err, d.retry_after)
                    /\ CountCheck(user_id, ~held \/ d.reset, d.err)
                    /\ IF d.err = None
                       THEN /\ pc' = [pc EXCEPT ![p] = "process"]
                            /\ UNCHANGED <<local, response>>
                       ELSE /\ pc' = [pc EXCEPT ![p] = "idle"]
                            /\ local' = [local EXCEPT ![p] = NoLocal]
                            /\ response' = Response(429, "http_exception",
                                   "Rate limit exceeded. Maximum 60 requests per minute.")
    /\ UNCHANGED <<threads, messages, issued, nuuid, ret, insertLog, hadDeletion>>
    /\ UNCHANGED <<ncalls, respondVars, sessionVars, nticks>>

\* what request.body() and server.process() may raise
ProcessErrors == {"ValidationError", "UnboundLocalError", "ClientDisconnect"}

\* str(e): the text of the exception, which names what failed
ExceptionText(exc) == exc

\* the endpoint's "except Exception as e" around the processing
process_failure_response(exc) ==
    Response(500, "internal_server_error", ExceptionText(exc))

\* the request is read and processed by the ChatKit server: a result
\* (exc = None), or an exception and the 500 response
ChatkitProcess(p, exc) ==
    /\ pc[p] = "process"
    /\ pc' = [pc EXCEPT ![p] = "idle"]
    /\ local' = [local EXCEPT ![p] = NoLocal]
    /\ response' = IF exc = None THEN response ELSE process_failure_response(exc)
    /\ UNCHANGED <<threads, messages, issued, nuuid, ret, insertLog, hadDeletion>>
    /\ UNCHANGED <<ncalls, respondVars, sessionVars, clock, nticks, rate_limit_store, rate_result,
                   window_checks, window_allowed>>

\* time passes: one tick, or one tick less than the window
Advances == {1, RATE_LIMIT_WINDOW - 1}

Tick(d) ==
    /\ nticks < MaxTicks
    /\ nticks' = nticks + 1
    /\ clock' = clock + d
    /\ UNCHANGED <<storeVars, ncalls, respondVars, sessionVars>>
    /\ UNCHANGED <<rate_limit_store, rate_result, window_checks, window_allowed, response>>

(***************************************************************************)
(* Failures of the storage layer inside the store's methods                *)
(***************************************************************************)
StoreReads  == {"load_thread", "load_threads", "load_thread_items", "load_item"}
StoreWrites == {"save_thread", "delete_thread", "add_thread_item", "save_item",
                "delete_thread_item"}

\* what session.execute and session.commit raise when the database fails
StorageErrors == {"OperationalError", "InterfaceError", "TimeoutError"}

NoResult == [found |-> FALSE]

\* handlers that log and re-raise in every method
store_except_raises(op, exc) == [err |-> exc, result |-> NoResult]

\* the handler "except Exception as e" of each method, for an exception exc
\* raised inside its try block: the error the caller sees and the value
\* returned
store_except(op, exc) ==
    IF ~Catches("Exception", exc) THEN [err |-> exc, result |-> NoResult]
    ELSE IF op \in {"load_thread", "load_item"} THEN [err |-> None, result |-> NotFound]
    ELSE IF op = "load_threads"
    THEN [err |-> None, result |-> Page([items |-> <<>>, next_cursor |-> None])]
    ELSE IF op = "load_thread_items"
    THEN [err |-> None, result |-> Page([data |-> <<>>, has_more |-> FALSE])]
    ELSE [err |-> exc, result |-> NoResult]

\* a call of method op whose database statement raises exc: the transaction
\* is rolled back when the session closes
StoreFails(p, op, thread_id, exc) ==
    /\ pc[p] = "idle"
    /\ LET h == store_except(op, exc)
       IN  Finish(p, [op |-> op, err |-> h.err, thread_id |-> thread_id,
                      failed |-> exc, result |-> h.result])
    /\ UNCHANGED <<threads, messages, issued, nuuid, insertLog, hadDeletion>>

(***************************************************************************)
(* ChatKit client sessions (routers/chatkit_session.py)                    *)
(***************************************************************************)
TTL_HOURS == 24
\* timedelta(hours=ttl_hours) in ticks of the clock
SESSION_TTL == TTL_HOURS * 3600 * TicksPerSecond

\* the expired entries leave the store
cleanup_expired_sessions(store, now) ==
    [k \in DOMAIN store |->
        IF store[k].present /\ store[k].expires_at < now THEN NoSession ELSE store[k]]

\* secrets.token_urlsafe(32): a secret no earlier call produced
generate_client_secret(store, n, user_id, now) ==
    LET s == cleanup_expired_sessions(store, now)
    IN  [store  |-> [s EXCEPT ![n + 1] = [present |-> TRUE, user_id |-> user_id,
                                          expires_at |-> now + SESSION_TTL]],
         client_secret |-> n + 1]

\* a validation that neither purges nor looks at expires_at
validate_client_secret_unchecked(store, client_secret, now) ==
    [store |-> store, user_id |-> store[client_secret].user_id]

\* the store after the call and the user id returned (None: no valid session)
validate_client_secret(store, client_secret, now) ==
    LET s == cleanup_expired_sessions(store, now)
        session == s[client_secret]
    IN  IF ~session.present
        THEN [store |-> s, user_id |-> None]
        ELSE IF session.expires_at < now
        THEN [store |-> [s EXCEPT ![client_secret] = NoSession], user_id |-> None]
        ELSE [store |-> s, user_id |-> session.user_id]

\* a session request arrives; its dependency awaits the identity authority
SessionRequest(p, op, client_secret, user_id) ==
    /\ pc[p] = "idle"
    /\ op \in {"create_session", "refresh_session", "delete_session"}
    /\ pc' = [pc EXCEPT ![p] = "auth_middleware"]
    /\ local' = [local EXCEPT ![p] =
                    [op |-> op, client_secret |-> client_secret, user_id |-> user_id,
                     raced |-> FALSE]]
    /\ ncalls < MaxCalls
    /\ ncalls' = ncalls + 1
    /\ UNCHANGED <<threads, messages, issued, nuuid, ret, insertLog, hadDeletion>>
    /\ UNCHANGED <<respondVars, rateVars, sessionVars>>

SessionResult(op, status_code, client_secret, user_id, new_secret, raced) ==
    [op |-> op, status_code |-> status_code, client_secret |-> client_secret,
     user_id |-> user_id, new_secret |-> new_secret, raced |-> raced]

\* process p ends its request; when it took the secret away, the requests
\* in flight for the same secret are marked as having raced with it
SessionDone(p, client_secret, status_code) ==
    /\ pc' = [pc EXCEPT ![p] = "idle"]
    /\ local' = [q \in Procs |->
          IF q = p THEN NoLocal
          ELSE IF /\ status_code = 200
                  /\ pc[q] \in {"auth_middleware", "refresh_validated"}
                  /\ local[q].op \in {"refresh_session", "delete_session"}
                  /\ local[q].client_secret = client_secret
          THEN [local[q] EXCEPT !.raced = TRUE]
          ELSE local[q]]

SessionFrame ==
    /\ UNCHANGED <<threads, messages, issued, nuuid, ret, insertLog, hadDeletion>>
    /\ UNCHANGED <<ncalls, respondVars, rateVars>>

\* auth_middleware raises for refresh and delete: the handler does not run
SessionAuthFails(p) ==
    /\ pc[p] = "auth_middleware"
    /\ local[p].op \in {"refresh_session", "delete_session"}
    /\ pc' = [pc EXCEPT ![p] = "idle"]
    /\ local' = [local EXCEPT ![p] = NoLocal]
    /\ session_result' =
          SessionResult("auth_middleware", 401, local[p].client_secret, None, 0, FALSE)
    /\ UNCHANGED <<session_store, nsecret, session_log>>
    /\ SessionFrame

\* POST /api/chatkit/session
CreateSession(p) ==
    /\ pc[p] = "auth_middleware"
    /\ local[p].op = "create_session"
    /\ nsecret < MaxSecrets
    /\ LET g == generate_client_secret(session_store, nsecret, local[p].user_id, clock)
       IN  /\ session_store' = g.store
           /\ nsecret' = g.client_secret
           /\ session_log' = [session_log EXCEPT ![g.client_secret] =
                 [user_id |-> local[p].user_id, expires_at |-> clock + SESSION_TTL,
                  gone |-> FALSE]]
           /\ session_result' =
                 SessionResult("create_session", 200, 0, local[p].user_id,
                               g.client_secret, FALSE)
    /\ pc' = [pc EXCEPT ![p] = "idle"]
    /\ local' = [local EXCEPT ![p] = NoLocal]
    /\ SessionFrame

\* a refresh that asks only whether the secret is valid, not whose it is
refresh_session_any_caller(store, n, client_secret, user_id, now) ==
    LET v == validate_client_secret(store, client_secret, now)
    IN  IF ~Truthy(v.user_id)
        THEN [status_code |-> 401, store |-> v.store, new_secret |-> 0]
        ELSE LET g == generate_client_secret(
                          [v.store EXCEPT ![client_secret] = NoSession], n, user_id, now)
             IN  [status_code |-> 200, store |-> g.store, new_secret |-> g.client_secret]

\* the body of refresh_session: status, store and the new secret
refresh_session(store, n, client_secret, user_id, now) ==
    LET v == validate_client_secret(store, client_secret, now)
    IN  IF ~Truthy(v.user_id) \/ v.user_id # user_id
        THEN [status_code |-> 401, store |-> v.store, new_secret |-> 0]
        ELSE LET g == generate_client_secret(
                          [v.store EXCEPT ![client_secret] = NoSession], n, user_id, now)
             IN  [status_code |-> 200, store |-> g.store, new_secret |-> g.client_secret]

\* what a successful refresh or revocation, and a new secret, leave in the log
LogAfter(log, client_secret, status_code, new_secret, user_id) ==
    IF status_code # 200 THEN log
    ELSE [k \in DOMAIN log |->
            IF k = client_secret THEN [log[k] EXCEPT !.gone = TRUE]
            ELSE IF k = new_secret
            THEN [user_id |-> user_id, expires_at |-> clock + SESSION_TTL, gone |-> FALSE]
            ELSE log[k]]

\* a refresh that is suspended between validating the secret and deleting
\* it: "del" of a secret that is gone raises KeyError, answered with 500
RefreshSessionTorn(p) ==
    /\ local[p].op = "refresh_session"
    /\ nsecret < MaxSecrets
    /\ LET k == local[p].client_secret
           u == local[p].user_id
       IN  \/ /\ pc[p] = "auth_middleware"
              /\ LET v == validate_client_secret(session_store, k, clock)
                 IN  /\ session_store' = v.store
                     /\ IF ~Truthy(v.user_id) \/ v.user_id # u
                        THEN /\ pc' = [pc EXCEPT ![p] = "idle"]
                             /\ local' = [local EXCEPT ![p] = NoLocal]
                             /\ session_result' =
                                   SessionResult("refresh_session", 401, k, u, 0,
                                                 local[p].raced)
                        ELSE /\ pc' = [pc EXCEPT ![p] = "refresh_validated"]
                             /\ UNCHANGED <<local, session_result>>
              /\ UNCHANGED <<nsecret, session_log>>
           \/ /\ pc[p] = "refresh_validated"
              /\ SessionDone(p, k, IF session_store[k].present THEN 200 ELSE 500)
              /\ IF ~session_store[k].present
                 THEN /\ session_result' =
                            SessionResult("refresh_session", 500, k, u, 0, local[p].raced)
                      /\ UNCHANGED <<session_store, nsecret, session_log>>
                 ELSE LET g == generate_client_secret(
                                  [session_store EXCEPT ![k] = NoSession], nsecret, u, clock)
                      IN  /\ session_store' = g.store
                          /\ nsecret' = g.client_secret
                          /\ session_log' = LogAfter(session_log, k, 200,
                                                     g.client_secret, u)
                          /\ session_result' =
                                SessionResult("refresh_session", 200, k, u,
                                              g.client_secret, local[p].raced)
    /\ SessionFrame

\* POST /api/chatkit/session/refresh: the handler has no await, so it runs
\* from the validation to the response without another request in between
RefreshSession(p) ==
    /\ pc[p] = "auth_middleware"
    /\ local[p].op = "refresh_session"
    /\ nsecret < MaxSecrets
    /\ LET k == local[p].client_secret
           u == local[p].user_id
           r == refresh_session(session_store, nsecret, k, u, clock)
       IN  /\ session_store' = r.store
           /\ nsecret' = IF r.status_code = 200 THEN r.new_secret ELSE nsecret
           /\ session_log' = LogAfter(session_log, k, r.status_code, r.new_secret, u)
           /\ session_result' =
                 SessionResult("refresh_session", r.status_code, k, u, r.new_secret,
                               local[p].raced)
           /\ SessionDone(p, k, r.status_code)
    /\ SessionFrame

\* a revocation that asks only whether the secret is valid, not whose it is
DeleteSessionAnyCaller(p) ==
    /\ pc[p] = "auth_middleware"
    /\ local[p].op = "delete_session"
    /\ LET k == local[p].client_secret
           u == local[p].user_id
           v == validate_client_secret(session_store, k, clock)
           status_code == IF ~Truthy(v.user_id) THEN 401 ELSE 200
       IN  /\ session_store' = IF status_code = 200
                               THEN [v.store EXCEPT ![k] = NoSession] ELSE v.store
           /\ session_log' = LogAfter(session_log, k, status_code, 0, u)
           /\ session_result' =
                 SessionResult("delete_session", status_code, k, u, 0, local[p].raced)
           /\ SessionDone(p, k, status_code)
    /\ UNCHANGED nsecret
    /\ SessionFrame

\* DELETE /api/chatkit/session
DeleteSession(p) ==
    /\ pc[p] = "auth_middleware"
    /\ local[p].op = "delete_session"
    /\ LET k == local[p].client_secret
           u == local[p].user_id
           v == validate_client_secret(session_store, k, clock)
           status_code == IF ~Truthy(v.user_id) \/ v.user_id # u THEN 401 ELSE 200
       IN  /\ session_store' = IF status_code = 200
                               THEN [v.store EXCEPT ![k] = NoSession] ELSE v.store
           /\ session_log' = LogAfter(session_log, k, status_code, 0, u)
           /\ session_result' =
                 SessionResult("delete_session", status_code, k, u, 0, local[p].raced)
           /\ SessionDone(p, k, status_code)
    /\ UNCHANGED nsecret
    /\ SessionFrame

\* validate_client_secret called on its own
ValidateClientSecret(client_secret) ==
    /\ LET v == validate_client_secret(session_store, client_secret, clock)
       IN  /\ session_store' = v.store
           /\ session_result' =
                 SessionResult("validate_client_secret", 0, client_secret, v.user_id,
                               0, FALSE)
    /\ UNCHANGED <<pc, local, nsecret, session_log>>
    /\ SessionFrame

(***************************************************************************)
(* Specifications                                                          *)
(***************************************************************************)
\* identifiers a caller can name: its own and those generated so far
KnownIds == ClientItemIds \cup { uuid4(i) : i \in 1..nuuid }

NewThread == ThreadMetadata("t1", "A", Empty)

\* a store call outside respond and outside the count of overlapping requests
Apart == UNCHANGED <<ncalls, respondVars, sessionVars, rateVars>>

\* every call runs to completion before the next one starts (one writer);
\* the messages are those of thread t1, and t2 is an identifier never stored
NextSerial ==
    \/ SaveThread(1, NewThread, None) /\ Apart
    \/ \E u \in Callers : DeleteThread(1, "t1", u) /\ Apart
    \/ \E i \in WriterItems : AddThreadItem(1, "t1", i) /\ Apart
    \/ \E i \in WriterItems : SaveItem(1, "t1", i) /\ Apart
    \/ \E id \in KnownIds : DeleteThreadItem(1, "t1", id) /\ Apart
    \/ \E t \in ThreadIds, u \in Callers : LoadThread(1, t, u) /\ Apart
    \/ \E n \in 1..MaxRows, follow \in BOOLEAN : LoadThreadItems(1, "t1", n, follow) /\ Apart
    \/ \E id \in KnownIds : LoadItem(1, "t1", id) /\ Apart

SpecSerial == Init /\ [][NextSerial]_vars

\* requests handled concurrently: a handler is suspended at each of its awaits
ConcurrentItems ==
    UNION { { UserItem(id, <<TextBlock(ShortText)>>),
              AssistantItem(id, <<TextBlock(OtherText)>>) }
            : id \in ClientItemIds \cup {FAKE_ID} }

\* a request enters a handler
Begins ==
    /\ ncalls < MaxCalls
    /\ ncalls' = ncalls + 1
    /\ UNCHANGED <<respondVars, sessionVars, rateVars>>

Next ==
    \E p \in Procs :
        \/ Begins /\ SaveThreadSelect(p, NewThread, None)
        \/ Begins /\ \E i \in ConcurrentItems : AddThreadItemSelect(p, "t1", i)
        \/ Begins /\ \E i \in ConcurrentItems : SaveItemSelect(p, "t1", i)
        \/ Begins /\ \E id \in KnownIds : DeleteThreadItem(p, "t1", id)
        \/ Begins /\ \E u \in Callers : DeleteThreadCheck(p, "t1", u)
        \/ SaveThreadCommit(p) /\ Apart
        \/ AddThreadItemTitle(p) /\ Apart
        \/ AddThreadItemCommit(p) /\ Apart
        \/ SaveItemUpdate(p) /\ Apart
        \/ SaveItemSeq(p) /\ Apart
        \/ SaveItemInsert(p) /\ Apart
        \/ DeleteThreadExec(p) /\ Apart

Spec == Init /\ [][Next]_vars

\* two appends that race on the empty thread t1, which save_thread stored
InitRace ==
    /\ InitRate
    /\ threads = { ThreadRow(save_thread_select({}, NewThread, None)) }
    /\ messages = {}
    /\ issued = [t \in ThreadIds |-> IF t = "t1" THEN "A" ELSE None]
    /\ nuuid = 0
    /\ pc = [p \in Procs |-> "idle"]
    /\ local = [p \in Procs |-> NoLocal]
    /\ ret = [p \in Procs |-> NoRet]
    /\ insertLog = [t \in ThreadIds |-> <<>>]
    /\ hadDeletion = [t \in ThreadIds |-> FALSE]
    /\ ncalls = 0
    /\ InitRespond
    /\ InitSession

NextRace ==
    \E p \in Procs :
        \/ Begins /\ \E i \in ConcurrentItems : AddThreadItemSelect(p, "t1", i)
        \/ AddThreadItemTitle(p) /\ Apart
        \/ AddThreadItemCommit(p) /\ Apart

SpecRace == InitRace /\ [][NextRace]_vars

\* respond, called once on thread t1 after the store was filled
NextRespond ==
    \/ rpc = "idle" /\ SaveThread(1, NewThread, None) /\ Apart
    \/ rpc = "idle" /\ \E i \in ConcurrentItems : AddThreadItem(1, "t1", i) /\ Apart
    \/ \E input \in RespondInputs : RespondCall(input)
    \/ RespondValidate
    \/ \E db_fails \in BOOLEAN : RespondLoadHistory(db_fails)
    \/ RespondTranslate
    \/ \E e \in Raisable : RespondTranslateRaises(e)
    \/ RespondRunAgent
    \/ \E e \in Raisable : RespondRunAgentRaises(e)
    \/ RespondRelay
    \/ RespondAgentPersists
    \/ RespondCompletes
    \/ \E e \in Raisable : RespondRelayRaises(e)
    \/ RespondExcept

SpecRespond == Init /\ [][NextRespond]_vars

\* identifiers of the messages of a long thread
HistoryIds ==
    <<"h01", "h02", "h03", "h04", "h05", "h06", "h07", "h08", "h09", "h10", "h11", "h12",
      "h13", "h14", "h15", "h16", "h17", "h18", "h19", "h20", "h21", "h22", "h23", "h24">>

\* the k-th message of a conversation: the user and the assistant alternate
HistoryItem(k) ==
    IF k % 2 = 1 THEN UserItem(HistoryIds[k], <<TextBlock(ShortText)>>)
    ELSE AssistantItem(HistoryIds[k], <<TextBlock(OtherText)>>)

\* add_thread_item of the next message of the conversation, before respond
\* is called: the call of AddThreadItem without the cap on the table size
AppendHistory ==
    /\ rpc = "idle"
    /\ Cardinality(messages) < MaxHistory
    /\ LET item == HistoryItem(Cardinality(messages) + 1)
           l1 == add_thread_item_select(messages, "t1", item, nuuid)
           l2 == IF NeedsTitle(l1) THEN add_thread_item_title(threads, l1) ELSE l1
           r  == insert_commit(messages, threads, l2)
       IN  /\ messages' = r.messages
           /\ threads' = r.threads
           /\ Finish(1, Ret("add_thread_item", r.err, l2))
           /\ LogInsert(r.err, "t1", l2.item_id)
    /\ UNCHANGED <<issued, nuuid, ncalls, respondVars, sessionVars, rateVars>>

NextHistory ==
    \/ AppendHistory
    \/ \E input \in RespondInputs : RespondCall(input)
    \/ RespondValidate
    \/ \E db_fails \in BOOLEAN : RespondLoadHistory(db_fails)
    \/ RespondTranslate
    \/ \E e \in Raisable : RespondTranslateRaises(e)
    \/ RespondRunAgent
    \/ \E e \in Raisable : RespondRunAgentRaises(e)
    \/ RespondRelay
    \/ RespondCompletes
    \/ \E e \in Raisable : RespondRelayRaises(e)
    \/ RespondExcept

\* respond called on a thread that holds up to MaxHistory messages
SpecHistory == InitRace /\ [][NextHistory]_vars

\* a thread created with a title of its own
TitledThread == ThreadMetadata("t1", "A", Chars("ch", 9))

\* first messages: 5 characters; the same between whitespace; exactly 50;
\* 60; 60 with whitespace around the 50th; whitespace only
TitleTexts ==
    { ShortText,
      Concat(Chars("ws", 2), Concat(ShortText, Chars("ws", 1))),
      Chars("ch", TitleLen),
      Chars("ch", TitleLen + 10),
      Concat(Chars("ch", TitleLen - 2), Concat(Chars("ws", 4), Chars("ch", 8))),
      Chars("ws", 3) }

TitleItems ==
    { UserItem(id, <<TextBlock(t)>>) : id \in ClientItemIds, t \in TitleTexts }
    \cup { UserItem(FAKE_ID, <<TextBlock(ShortText)>>),
            AssistantItem("m1", <<TextBlock(OtherText)>>) }

\* one caller at a time creates, fills, empties and deletes thread t1
NextTitle ==
    \/ \E th \in {NewThread, TitledThread} : SaveThread(1, th, None) /\ Apart
    \/ DeleteThread(1, "t1", "A") /\ Apart
    \/ \E i \in TitleItems : AddThreadItem(1, "t1", i) /\ Apart
    \/ \E i \in TitleItems : SaveItem(1, "t1", i) /\ Apart
    \/ \E id \in KnownIds : DeleteThreadItem(1, "t1", id) /\ Apart

SpecTitle == Init /\ [][NextTitle]_vars

\* requests of user A handled concurrently while time passes
NextRate ==
    \/ \E p \in Procs : ChatkitEndpoint(p, "A")
    \/ \E p \in Procs, late \in {0, 1} : RateLimitMiddleware(p, late)
    \/ \E p \in Procs : ChatkitProcess(p, None)
    \/ \E d \in Advances : Tick(d)

SpecRate == Init /\ [][NextRate]_vars

\* requests with and without a bearer token, of user A and of a session
\* whose user id is empty, with every answer of the authority and every
\* outcome of the processing
NextEndpoint ==
    \/ \E p \in Procs, h \in {"absent", "not bearer"} : ChatkitEndpointNoBearer(p, h)
    \/ \E p \in Procs, u \in {"A", ""} : ChatkitEndpoint(p, u)
    \/ \E p \in Procs, a \in AuthorityAnswers : ValidateSessionFails(p, a)
    \/ \E p \in Procs, late \in {0, 1} : RateLimitMiddleware(p, late)
    \/ \E p \in Procs, exc \in ProcessErrors \cup {None} : ChatkitProcess(p, exc)

SpecEndpoint == Init /\ [][NextEndpoint]_vars

\* session requests of two users, one at a time, while time passes up to
\* and beyond the life of a secret
NextSession ==
    \/ \E u \in Users : SessionRequest(1, "create_session", 0, u)
    \/ \E op \in {"refresh_session", "delete_session"}, k \in ClientSecrets, u \in Users :
          SessionRequest(1, op, k, u)
    \/ CreateSession(1)
    \/ RefreshSession(1)
    \/ DeleteSession(1)
    \/ \E k \in ClientSecrets : ValidateClientSecret(k)
    \/ \E d \in {1, SESSION_TTL} : Tick(d)

SpecSession == Init /\ [][NextSession]_vars

\* session requests for the secrets of user A handled concurrently
NextSessionRace ==
    \/ \E p \in Procs : SessionRequest(p, "create_session", 0, "A")
    \/ \E p \in Procs, op \in {"refresh_session", "delete_session"},
          k \in ClientSecrets, u \in Users : SessionRequest(p, op, k, u)
    \/ \E p \in Procs : SessionAuthFails(p)
    \/ \E p \in Procs : CreateSession(p)
    \/ \E p \in Procs : RefreshSession(p)
    \/ \E p \in Procs : DeleteSession(p)
    \/ \E k \in ClientSecrets : ValidateClientSecret(k)

SpecSessionRace == Init /\ [][NextSessionRace]_vars

\* users A and B create, update, delete and list threads, one call at a
\* time, while time passes
NextThreads ==
    \/ \E t \in ThreadIds, u \in Users : SaveThread(1, ThreadMetadata(t, u, Empty), None) /\ Apart
    \/ \E t \in ThreadIds, u \in Users : DeleteThread(1, t, u) /\ Apart
    \/ \E u \in {None, "B"}, c \in {None, "A"}, limit \in 1..2,
          after \in ThreadIds \cup {None}, order \in {"desc", "asc"} :
           LoadThreads(1, u, c, limit, after, order) /\ Apart
    \/ Tick(1)

SpecThreads == Init /\ [][NextThreads]_vars

\* threads saved with and without a user identifier in the metadata and in
\* the context, and deleted, one call at a time
NextOwner ==
    \/ \E t \in ThreadIds, u \in Callers, c \in Callers :
           SaveThread(1, ThreadMetadata(t, u, Empty), c) /\ Apart
    \/ \E t \in ThreadIds, u \in Users : DeleteThread(1, t, u) /\ Apart

SpecOwner == Init /\ [][NextOwner]_vars

\* calls of the store, some of which meet a failing database
NextFailure ==
    \/ SaveThread(1, NewThread, None) /\ Apart
    \/ \E i \in ConcurrentItems : AddThreadItem(1, "t1", i) /\ Apart
    \/ \E op \in StoreReads \cup StoreWrites, t \in ThreadIds, exc \in StorageErrors :
           StoreFails(1, op, t, exc) /\ Apart

SpecFailure == Init /\ [][NextFailure]_vars

\* items of every kind: user and assistant messages, a user message over
\* the length limit, and items of another type with a role attribute that
\* the schema does not know, and with none
SchemaItems ==
    UNION { { UserItem(id, <<TextBlock(ShortText)>>),
              UserItem(id, <<TextBlock(HugeText)>>),
              AssistantItem(id, <<TextBlock(OtherText)>>),
              Item(id, "widget", "system", <<TextBlock(ShortText)>>),
              Item(id, "widget", None, <<OtherBlock>>) }
            : id \in ClientItemIds \cup {FAKE_ID} }

NextSchema ==
    \/ SaveThread(1, NewThread, None) /\ Apart
    \/ \E i \in SchemaItems : AddThreadItem(1, "t1", i) /\ Apart
    \/ \E i \in SchemaItems : SaveItem(1, "t1", i) /\ Apart

SpecSchema == Init /\ [][NextSchema]_vars

\* a thread is saved with one title or another, messages are appended and
\* upserted, one call at a time, while time passes
NextTouch ==
    \/ \E title \in {Empty, ShortText} : SaveThread(1, ThreadMetadata("t1", "A", title), None) /\ Apart
    \/ \E i \in ConcurrentItems : AddThreadItem(1, "t1", i) /\ Apart
    \/ \E i \in ConcurrentItems \cup {UserItem("m1", <<TextBlock(OtherText)>>)} :
          SaveItem(1, "t1", i) /\ Apart
    \/ Tick(1)

SpecTouch == Init /\ [][NextTouch]_vars

\* a client (process 1) lists thread t1 page by page while a writer
\* (process 2) appends and deletes messages between its calls
CursorItems ==
    {UserItem("m1", <<TextBlock(ShortText)>>), AssistantItem(FAKE_ID, <<TextBlock(OtherText)>>)}

NextCursor ==
    \/ SaveThread(2, NewThread, None) /\ Apart
    \/ \E i \in CursorItems : AddThreadItem(2, "t1", i) /\ Apart
    \/ \E id \in KnownIds : DeleteThreadItem(2, "t1", id) /\ Apart
    \/ \E n \in 1..2, follow \in BOOLEAN : LoadThreadItems(1, "t1", n, follow) /\ Apart

SpecCursor == Init /\ [][NextCursor]_vars

(***************************************************************************)
(* Properties                                                              *)
(***************************************************************************)
ThreadRows(t) == { m \in messages : m.thread_id = t }
ThreadStored(t) == \E r \in threads : r.thread_id = t
SeqOf(t, id) == (CHOOSE m \in ThreadRows(t) : m.message_id = id).sequence_number

\* C1: after N successful inserting calls on a thread, made one after the
\* other and with no row of the thread deleted, the thread holds exactly N
\* rows, their sequence numbers are exactly 1..N, and the k-th call's
\* message has sequence number k.
C1_SequenceIsOneToN ==
    \A t \in ThreadIds :
        ~hadDeletion[t] =>
            /\ Cardinality(ThreadRows(t)) = Len(insertLog[t])
            /\ { m.sequence_number : m \in ThreadRows(t) } = 1..Len(insertLog[t])
            /\ \A k \in 1..Len(insertLog[t]) :
                   \E m \in ThreadRows(t) : /\ m.message_id = insertLog[t][k]
                                            /\ m.sequence_number = k

C1_Witness ==
    /\ ~hadDeletion["t1"]
    /\ Len(insertLog["t1"]) = MaxRows
    /\ ret[1].op = "add_thread_item" /\ ret[1].err = None

\* C2: of the appends that raced on the empty thread (each read that there
\* is no last sequence number), exactly one succeeded, its message is the
\* only row at sequence number 1, and every other one raised a write
\* failure to its caller.
Racers == { p \in Procs : ret[p].op = "add_thread_item" /\ ret[p].next_seq = 1 }
Winners == { p \in Racers : ret[p].err = None }
AtSeqOne == { m \in ThreadRows("t1") : m.sequence_number = 1 }

C2_OneWinnerAtSeqOne ==
    Cardinality(Racers) >= 2 =>
        /\ Cardinality(Winners) <= 1
        /\ Cardinality(AtSeqOne) = 1
        /\ \A w \in Winners : \A m \in AtSeqOne : m.message_id = ret[w].item_id
        /\ \A p \in Racers \ Winners : ret[p].err = "IntegrityError"

C2_Witness ==
    \E p \in Racers : \E q \in Racers :
        /\ ret[p].err = None
        /\ ret[q].err = "IntegrityError"
        /\ ret[p].item_id # ret[q].item_id

\* C3: no two stored messages of one thread have the same sequence number.
C3_SequenceUnique ==
    \A a \in messages : \A b \in messages :
        (a.thread_id = b.thread_id /\ a.sequence_number = b.sequence_number) => a = b

\* an insert at a taken sequence number, under a new identifier, was refused
C3_Witness ==
    \E p \in Procs :
        /\ ret[p].op \in {"add_thread_item", "save_item"}
        /\ ret[p].err = "IntegrityError"
        /\ \A m \in messages : m.message_id # ret[p].item_id
        /\ \E m \in ThreadRows(ret[p].thread_id) : m.sequence_number = ret[p].next_seq

\* the row save_item must leave when it is called with item i right after a
\* save_item of an item with the same identifier returned
UpsertedRow(i) ==
    [message_id      |-> ret[1].item_id,
     thread_id       |-> "t1",
     role            |-> ExtractRole(i),
     content         |-> ExtractContent(i, PlaceholderSave),
     sequence_number |-> ret[1].next_seq]

\* a successful save_item of item i on t1 that follows a successful save_item,
\* on t1, of an item carrying the identifier i carries
SavedTwice(i) ==
    /\ ret[1].op = "save_item"
    /\ ret[1].err = None
    /\ ret[1].thread_id = "t1"
    /\ Carried(ret[1].item_id) = i.id
    /\ SaveItem(1, "t1", i)
    /\ ret'[1].err = None

\* C4 as stated: after two successful save_item calls on one thread with
\* items carrying the same identifier, the rows stored by the two calls are
\* exactly one row: the first call's identifier and sequence number, the
\* second call's role and content.
C4_Original ==
    [][\A i \in WriterItems :
          SavedTwice(i) =>
              { m \in messages' : m.message_id \in {ret[1].item_id, ret'[1].item_id} }
                  = { UpsertedRow(i) }]_vars

\* C4 (amended): the same, for items whose identifier is not the placeholder
\* "__fake_id__"; the identifier has then no other row either.
C4_UpsertKeepsRow ==
    [][\A i \in WriterItems :
          (i.id # FAKE_ID /\ SavedTwice(i)) =>
              /\ ret'[1].item_id = i.id
              /\ { m \in messages' : m.message_id = i.id } = { UpsertedRow(i) }]_vars

\* the second save_item of identifier m1 replaced a user message by an
\* assistant message in place, behind another message
C4_Witness ==
    /\ ret[1].op = "save_item" /\ ret[1].err = None
    /\ ret[1].repeat /\ ret[1].updated
    /\ ret[1].item_id \in ClientItemIds
    /\ \E m \in ThreadRows("t1") : /\ m.message_id = ret[1].item_id
                                   /\ m.role = "assistant"
                                   /\ m.content = OtherText
                                   /\ m.sequence_number = 1
    /\ Cardinality(ThreadRows("t1")) >= 2

\* C5: listing a thread in ascending order, first without a cursor and then
\* with the cursor of the page before, while the store does not change:
\* what has been received so far are stored messages of the thread in
\* strictly increasing sequence-number order; a page that reports more
\* carries a cursor and at least one item; and when no more pages are
\* reported the received messages are all the messages of the thread.
C5_PagesPartition ==
    \A p \in Procs :
        ret[p].op = "load_thread_items" =>
            LET c == ret[p].collected
                t == ret[p].thread_id
            IN  /\ \A k \in 1..Len(c) : \E m \in ThreadRows(t) : c[k] = RowItem(m)
                /\ \A j \in 1..Len(c) : \A k \in 1..Len(c) :
                       j < k => SeqOf(t, c[j].id) < SeqOf(t, c[k].id)
                /\ ret[p].page.has_more =>
                       /\ ret[p].page.after # None
                       /\ Len(ret[p].page.data) = ret[p].limit
                /\ ~ret[p].page.has_more =>
                       { c[k].id : k \in 1..Len(c) }
                           = { m.message_id : m \in ThreadRows(t) }

\* three messages were listed in two pages, the second one by cursor
C5_Witness ==
    /\ ret[1].op = "load_thread_items"
    /\ ret[1].limit = 2
    /\ ret[1].after.kind = "id"
    /\ ~ret[1].page.has_more
    /\ Len(ret[1].collected) = 3
    /\ Cardinality(ThreadRows("t1")) = 3

\* every identifier a message can be stored under
AllItemIds == ClientItemIds \cup { UuidPool[k] : k \in 1..Len(UuidPool) }

\* C6: while a thread is not stored (delete_thread removed it, or it never
\* was), load_thread_items on it returns no items, whatever the page size and
\* the order, and load_item on it returns not-found for every identifier.
C6_DeletedThreadHasNoMessages ==
    \A t \in ThreadIds :
        ~ThreadStored(t) =>
            /\ \A n \in 1..MaxRows : \A o \in {"asc", "desc"} :
                   load_thread_items(messages, t, n, NoCursor, o).data = <<>>
            /\ \A id \in AllItemIds : load_item(messages, t, id) = NotFound

\* a delete_thread that took messages with it has returned, and the thread
\* is still gone
C6_Witness ==
    \E p \in Procs :
        /\ ret[p].op = "delete_thread" /\ ret[p].err = None
        /\ ret[p].cascaded >= 1
        /\ ~ThreadStored(ret[p].thread_id)

\* C7: load_thread with user B on a thread stored for another user returned
\* not-found, which is what load_thread returns to B for every identifier
\* that is not stored.
C7_MismatchIsNotFound ==
    \A p \in Procs :
        ( /\ ret[p].op = "load_thread"
          /\ ret[p].user_id \in Users
          /\ \E r \in threads : /\ r.thread_id = ret[p].thread_id
                                /\ r.user_id # ret[p].user_id )
        => /\ ret[p].result = NotFound
           /\ \A t \in ThreadIds :
                  ~ThreadStored(t) => load_thread(threads, t, ret[p].user_id) = ret[p].result

\* B asked for A's stored thread, which A itself can load
C7_Witness ==
    /\ ret[1].op = "load_thread" /\ ret[1].user_id = "B" /\ ret[1].thread_id = "t1"
    /\ ret[1].result = NotFound
    /\ load_thread(threads, "t1", "A") # NotFound
    /\ ~ThreadStored("t2")

\* C8: delete_thread called with a user that is not the thread's owner
\* raises PermissionError and leaves threads and messages as they are; and
\* a delete_thread removes a thread only when it was called with no user
\* (None, or an empty user_id) or with the thread's owner.
C8_DeleteNeedsOwner ==
    [][\A p \in Procs :
          /\ \A u \in Users :
                 ( /\ DeleteThreadCheck(p, "t1", u)
                   /\ \E r \in threads : r.thread_id = "t1" /\ r.user_id # u )
                 => /\ ret'[p].err = "PermissionError"
                    /\ pc'[p] = "idle"
                    /\ threads' = threads
                    /\ messages' = messages
          /\ (DeleteThreadExec(p) /\ threads' # threads)
                 => \/ ~Truthy(local[p].user_id)
                    \/ \A r \in threads \ threads' : r.user_id = local[p].user_id]_vars

\* B's delete_thread on A's thread, which has a message, was refused
C8_Witness ==
    \E p \in Procs :
        /\ ret[p].op = "delete_thread" /\ ret[p].err = "PermissionError"
        /\ ret[p].user_id = "B"
        /\ \E r \in threads : r.thread_id = ret[p].thread_id /\ r.user_id = "A"
        /\ ThreadRows(ret[p].thread_id) # {}

\* the inputs C9 is about: no item, no text, whitespace only, or more than
\* 100,000 characters
AllWhitespace(text) == \A k \in 1..Len(text) : text[k][1] = "ws"

InvalidInput(input) ==
    \/ input = NoInput
    \/ StrLen(MessageContent(input)) = 0
    \/ AllWhitespace(MessageContent(input))
    \/ StrLen(MessageContent(input)) > 100000

\* C9: a respond called with an invalid input never loads the history, runs
\* the agent or changes the messages table; it yields nothing before it
\* ends, and it ends having yielded exactly one event, an error event with
\* allow_retry = false.
C9_InvalidInputRejected ==
    (rpc # "idle" /\ InvalidInput(rinput)) =>
        /\ rloads = 0
        /\ rruns = 0
        /\ messages = rsnap
        /\ ~rraised
        /\ rpc \in {"validate", "done"}
        /\ rpc = "validate" => revents = <<>>
        /\ rpc = "done" => /\ Len(revents) = 1
                           /\ revents[1].type = "error"
                           /\ revents[1].allow_retry = FALSE

\* a message of 100,001 characters was rejected while the thread had history
C9_Witness ==
    /\ rpc = "done"
    /\ rinput # NoInput
    /\ StrLen(MessageContent(rinput)) = 100001
    /\ Len(revents) = 1 /\ revents[1].type = "error" /\ ~revents[1].allow_retry
    /\ ThreadRows(RespondThread) # {}

\* C10: no exception leaves respond; an error event is the last event of the
\* stream (so there is at most one, and nothing follows it) and respond has
\* ended when there is one; and a respond in which an exception was raised
\* ends with an error event.
C10_EndsNormallyOrWithOneError ==
    /\ ~rraised
    /\ \A k \in 1..Len(revents) : revents[k].type = "error" => k = Len(revents)
    /\ (revents # <<>> /\ revents[Len(revents)].type = "error") => rpc = "done"
    /\ (rpc = "done" /\ rexc # NoExc) =>
           (revents # <<>> /\ revents[Len(revents)].type = "error")

\* the stream raised after the agent's events were relayed, and respond
\* ended with a retryable error event behind them
C10_Witness ==
    /\ rpc = "done"
    /\ rexc.type = "RuntimeError"
    /\ Len(revents) = MaxEvents + 1
    /\ \A k \in 1..MaxEvents : revents[k] = AgentEvent(k)
    /\ revents[MaxEvents + 1].type = "error"
    /\ revents[MaxEvents + 1].allow_retry

\* the items of the n messages of thread t with the highest sequence numbers
\* (all of them when there are fewer), in ascending sequence order
MostRecentItems(t, n) ==
    LET rows == ThreadRows(t)
        top  == { m \in rows :
                    Cardinality({ o \in rows : o.sequence_number > m.sequence_number }) < n }
    IN  RowItems(OrderBySeq(top, "asc"))

\* C11: the history respond loads from the store (and hands to the agent) is
\* the 20 most recent items of the thread, in ascending sequence order.
C11_MostRecentHistory ==
    [][RespondLoadHistory(FALSE) => rhistory' = MostRecentItems(RespondThread, 20)]_vars

\* C12: the error event of the outer handler, by the words the exception
\* message contains, in this order of precedence: "quota" gives a
\* non-retryable error; else "rate limit" or "429" a retryable one; else
\* "timeout" or "connection" a retryable one; else the generic retryable one.
C12_RetryByMessage ==
    [][(rpc = "except" /\ rpc' = "done") =>
          LET w  == rexc.words
              ev == revents'[Len(revents')]
          IN  /\ revents' = Append(revents, ev)
              /\ ev.type = "error"
              /\ \A k \in 1..Len(revents) : revents[k].type # "error"
              /\ "quota" \in w => ~ev.allow_retry
              /\ ("quota" \notin w /\ ("rate limit" \in w \/ "429" \in w)) => ev.allow_retry
              /\ ("quota" \notin w /\ ("timeout" \in w \/ "connection" \in w)) => ev.allow_retry
              /\ w \cap {"quota", "rate limit", "429", "timeout", "connection"} = {} =>
                     /\ ev.allow_retry
                     /\ ev.message = "Something went wrong. Please try again."]_vars

\* an exception whose message has both "quota" and "429" ended respond with
\* a non-retryable error event
C12_Witness ==
    /\ rpc = "done"
    /\ rexc.type = "RuntimeError"
    /\ rexc.words = {"quota", "429"}
    /\ revents # <<>>
    /\ revents[Len(revents)].type = "error"
    /\ ~revents[Len(revents)].allow_retry

\* what the error event says for each guardrail
GuardrailMessage(g) ==
    IF g = "InputGuardrailTripwireTriggered" THEN "We blocked that message for safety."
    ELSE "The assistant response was blocked."

\* C13: when the stream raises an input or output guardrail trip during the
\* relay, respond ends with one more event, an error event with
\* allow_retry = false and the message of that guardrail, the only error
\* event of the stream; and a respond that has ended yields nothing more.
C13_GuardrailEndsStream ==
    [][/\ \A g \in {"InputGuardrailTripwireTriggered", "OutputGuardrailTripwireTriggered"} :
              (rpc = "relay" /\ rexc = NoExc /\ rexc'.type = g) =>
                  /\ rpc' = "done"
                  /\ revents' = Append(revents, ErrorEvent(GuardrailMessage(g), FALSE))
                  /\ \A k \in 1..Len(revents) : revents[k].type # "error"
                  /\ GuardrailMessage("InputGuardrailTripwireTriggered")
                         # GuardrailMessage("OutputGuardrailTripwireTriggered")
       /\ rpc = "done" => revents' = revents]_vars

\* the output guardrail tripped after the agent's events were relayed
C13_Witness ==
    /\ rpc = "done"
    /\ rexc.type = "OutputGuardrailTripwireTriggered"
    /\ Len(revents) = MaxEvents + 1
    /\ \A k \in 1..MaxEvents : revents[k] = AgentEvent(k)
    /\ revents[MaxEvents + 1] = ErrorEvent("The assistant response was blocked.", FALSE)

\* the step stored a new message by the call op, without error
Stored(op) ==
    /\ ret'[1].op = op
    /\ ret'[1].err = None
    /\ messages' # messages
    /\ Cardinality(messages' \ messages) = 1

NewRow == CHOOSE m \in messages' \ messages : TRUE

FirstUserMessageUntitled ==
    /\ Stored("add_thread_item")
    /\ NewRow.sequence_number = 1
    /\ NewRow.role = "user"
    /\ \E t \in threads : t.thread_id = NewRow.thread_id /\ t.title = Empty

TitleOf(thrs, thread_id) == (CHOOSE t \in thrs : t.thread_id = thread_id).title

\* C14 as stated: the title becomes the text itself when it has at most 50
\* characters, else exactly its first 50 characters followed by '...'.
C14_Original ==
    [][FirstUserMessageUntitled =>
          TitleOf(threads', NewRow.thread_id) =
              IF StrLen(NewRow.content) <= 50 THEN NewRow.content
              ELSE Concat(Slice(NewRow.content, 50), Ellipsis)]_vars

\* C14: when add_thread_item stores the first message of a thread, the
\* message is user-authored and the thread has no title, the title becomes
\* the text without its leading and trailing whitespace when the text has at
\* most 50 characters, else its first 50 characters without their leading
\* and trailing whitespace, followed by '...'.
C14_TitleIsStrippedPrefix ==
    [][FirstUserMessageUntitled =>
          TitleOf(threads', NewRow.thread_id) =
              IF StrLen(NewRow.content) <= 50 THEN Strip(NewRow.content)
              ELSE Concat(Strip(Slice(NewRow.content, 50)), Ellipsis)]_vars

\* the first message has whitespace around its 50th character: the title is
\* its first 48 characters and the ellipsis
C14_Witness ==
    /\ ret[1].op = "add_thread_item" /\ ret[1].err = None /\ ret[1].next_seq = 1
    /\ \E m \in messages :
          /\ m.sequence_number = 1 /\ m.role = "user"
          /\ m.content = Concat(Chars("ch", 48), Concat(Chars("ws", 4), Chars("ch", 8)))
    /\ \E t \in threads : t.title = Concat(Chars("ch", 48), Ellipsis)
    /\ ~hadDeletion["t1"]

\* C15: a thread that has a non-empty title keeps it through every later
\* add_thread_item and save_item, also one that stores a new first message
\* after the earlier messages were deleted.
C15_TitleSetOnce ==
    [][ret'[1].op \in {"add_thread_item", "save_item"} =>
          \A t \in threads : t.title # Empty => t \in threads']_vars

\* the thread got its title from a first message that was deleted; a new
\* first user message with another text was appended and the title stayed
C15_Witness ==
    /\ ret[1].op = "add_thread_item" /\ ret[1].err = None /\ ret[1].next_seq = 1
    /\ hadDeletion["t1"]
    /\ \E t \in threads : t.thread_id = "t1" /\ t.title = ShortText
    /\ \E m \in messages :
          /\ m.thread_id = "t1" /\ m.sequence_number = 1 /\ m.role = "user"
          /\ m.content = Chars("ch", TitleLen)

\* the effect of add_thread_item on the tables for the message that the step stored
AppendEffect ==
    LET l1 == [op        |-> "add_thread_item",
               thread_id |-> NewRow.thread_id,
               item_id   |-> NewRow.message_id,
               role      |-> NewRow.role,
               content   |-> NewRow.content,
               next_seq  |-> NextSeq(LastSeq(messages, NewRow.thread_id)),
               set_title |-> FALSE,
               title     |-> Empty]
        l2 == IF NeedsTitle(l1) THEN add_thread_item_title(threads, l1) ELSE l1
    IN  insert_commit(messages, threads, l2)

\* C16: a save_item that inserts a message leaves the tables as
\* add_thread_item with that message would, the title of the thread included.
C16_SaveItemInsertsLikeAppend ==
    [][Stored("save_item") =>
          /\ messages' = AppendEffect.messages
          /\ threads' = AppendEffect.threads]_vars

\* the step is a rate-limit check of a request of user u
CheckStep(u) ==
    \E p \in Procs :
        /\ pc[p] = "validate_session" /\ local[p].user_id = u
        /\ pc'[p] \in {"idle", "process"}
        /\ rate_result'.op = "rate_limit_middleware"

\* C17: for each user, a check made 60 seconds or more after the start of
\* the window is allowed and starts a new window at that time with count 1,
\* whatever the count was; any other check is allowed exactly when it is
\* among the first 60 checks of its window, and a rejected one raises the
\* 429 with a retry-after between 0 and 60, the whole seconds that remain
\* of the window.
C17_SixtyPerWindow ==
    [][\A u \in Users : CheckStep(u) =>
          LET e       == rate_limit_store[u]
              e2      == rate_limit_store'[u]
              allowed == rate_result'.err = None
              expired == e.present /\ clock - e.window_start >= 60 * TicksPerSecond
              remains == e.window_start + 60 * TicksPerSecond - clock
          IN  /\ rate_result'.user_id = u
              /\ expired => /\ allowed
                            /\ e2 = Entry(1, clock)
                            /\ window_checks'[u] = 1
              /\ ~expired => /\ allowed <=> window_checks'[u] <= 60
                             /\ e.present => e2.window_start = e.window_start
                             /\ ~e.present => e2.window_start = clock'
                             /\ e2.request_count = window_checks'[u]
              /\ ~allowed => /\ rate_result'.err = "HTTPException"
                             /\ remains > 0
                             /\ rate_result'.retry_after = remains \div TicksPerSecond
                             /\ rate_result'.retry_after \in 0..60]_vars

\* the 61st check of a window that began a window length or more after the
\* first one was rejected, after 60 allowed ones
C17_Witness ==
    /\ rate_result = RateResult("A", "HTTPException", rate_result.retry_after)
    /\ rate_limit_store["A"].request_count = 61
    /\ rate_limit_store["A"].window_start >= RATE_LIMIT_WINDOW
    /\ window_allowed["A"] = 60

\* C18: whatever the interleaving of the requests, the count a user's entry
\* holds is the number of checks made in its window (no increment is lost)
\* and at most 60 of them were allowed.
C18_ChecksAreAtomic ==
    \A u \in Users :
        /\ rate_limit_store[u].request_count = window_checks[u]
        /\ window_allowed[u] <= 60

\* a request of A was rejected as the 61st of the window while another
\* request of A awaits its session
C18_Witness ==
    /\ \E p \in Procs : pc[p] = "validate_session" /\ local[p].user_id = "A"
    /\ rate_result.err = "HTTPException"
    /\ window_checks["A"] = 61
    /\ window_allowed["A"] = 60

\* the step is a load_threads call made for a user
ListedThreads ==
    /\ ret'[1] # ret[1]
    /\ ret'[1].op = "load_threads"
    /\ Truthy(ret'[1].user_id)

UpdatedAt(id) == (CHOOSE t \in threads : t.thread_id = id).updated_at

\* the threads of the owner that the call's cursor leaves to return
Matching(r) ==
    { t \in threads :
        /\ t.user_id = r.user_id
        /\ (r.after # None /\ \E c \in threads : c.thread_id = r.after) =>
               IF r.order = "desc" THEN t.updated_at < UpdatedAt(r.after)
               ELSE t.updated_at > UpdatedAt(r.after) }

\* C19: load_threads for an owner returns at most limit threads, all of
\* them threads of the owner, in the order of updated_at that was asked
\* for, and a next-page cursor exactly when the owner has more matching
\* threads than it returned.
C19_ListThreadsPage ==
    [][ListedThreads =>
          LET r    == ret'[1]
              data == r.page.data
          IN  /\ Len(data) <= r.limit
              /\ \A i \in 1..Len(data) :
                    \E t \in threads : t.thread_id = data[i].id /\ t.user_id = r.user_id
              /\ \A i, j \in 1..Len(data) : i < j =>
                    IF r.order = "desc" THEN UpdatedAt(data[i].id) >= UpdatedAt(data[j].id)
                    ELSE UpdatedAt(data[i].id) <= UpdatedAt(data[j].id)
              /\ r.page.after # None <=> Cardinality(Matching(r)) > Len(data)]_vars

\* C20: the pages of a chain of load_threads calls, each passing the cursor
\* of the one before, hold no thread twice; and when the owner's threads
\* have distinct updated_at values, the pages up to the one without a
\* cursor hold every thread of the owner.
C20_PagesCoverThreads ==
    [][(ListedThreads /\ ret'[1].chain) =>
          LET r     == ret'[1]
              got   == r.collected
              owned == { t \in threads : t.user_id = r.user_id }
          IN  /\ \A i, j \in 1..Len(got) : i # j => got[i].id # got[j].id
              /\ (/\ r.page.after = None
                  /\ \A a, b \in owned : a # b => a.updated_at # b.updated_at)
                 => { got[i].id : i \in 1..Len(got) } = { t.thread_id : t \in owned }]_vars

RowOf(thrs, thread_id) == CHOOSE t \in thrs : t.thread_id = thread_id

\* C21: save_thread with the identifier of a stored thread returns without
\* error, leaves one row for the identifier, with the given metadata and
\* updated_at at the current time, and with the owner and title it had.
C21_UpdateReturnsNormally ==
    [][\A t \in ThreadIds, u \in Users :
          (/\ SaveThread(1, ThreadMetadata(t, u, Empty), None)
           /\ \E old \in threads : old.thread_id = t)
          => /\ ret'[1].err = None
             /\ Cardinality({ r \in threads' : r.thread_id = t }) = 1
             /\ RowOf(threads', t).thread_metadata = ThreadMetadata(t, u, Empty).metadata
             /\ RowOf(threads', t).updated_at = clock
             /\ RowOf(threads', t).user_id = RowOf(threads, t).user_id
             /\ RowOf(threads', t).title = RowOf(threads, t).title]_vars

\* C22: save_thread with an identifier that is not stored adds one row,
\* owned by the user identifier of the metadata or, when the metadata has
\* none, by the one of the context; when neither has one it fails with
\* ValueError and the table stays as it was.
C22_NewThreadOwner ==
    [][\A t \in ThreadIds, u \in Callers, c \in Callers :
          (/\ SaveThread(1, ThreadMetadata(t, u, Empty), c)
           /\ ~\E old \in threads : old.thread_id = t)
          => LET owner == IF u \in Users THEN u ELSE c
             IN  IF owner \in Users
                 THEN /\ ret'[1].err = None
                      /\ \E r \in threads' : /\ r.thread_id = t /\ r.user_id = owner
                                             /\ threads' = threads \cup {r}
                 ELSE /\ ret'[1].err = "ValueError"
                      /\ threads' = threads]_vars

\* a save_thread of t2 without any user identifier failed and stored
\* nothing, next to the stored thread t1 of user B
C22_Witness ==
    /\ ret[1].op = "save_thread" /\ ret[1].err = "ValueError" /\ ret[1].thread_id = "t2"
    /\ ~\E r \in threads : r.thread_id = "t2"
    /\ \E r \in threads : r.thread_id = "t1" /\ r.user_id = "B"

\* C23: when the database fails inside a method of the store, a read
\* (load_thread, load_threads, load_thread_items, load_item) returns
\* not-found or an empty page and raises nothing, a write (save_thread,
\* delete_thread, add_thread_item, save_item, delete_thread_item) raises the
\* failure to its caller, and the tables are as before.
C23_ReadsSwallowWritesRaise ==
    [][\A op \in StoreReads \cup StoreWrites, t \in ThreadIds, exc \in StorageErrors :
          StoreFails(1, op, t, exc) =>
             /\ op \in {"load_thread", "load_item"} =>
                    ret'[1].err = None /\ ret'[1].result = [found |-> FALSE]
             /\ op \in {"load_threads", "load_thread_items"} =>
                    /\ ret'[1].err = None
                    /\ ret'[1].result.data = <<>>
                    /\ ~ret'[1].result.has_more
             /\ op \in StoreWrites => ret'[1].err = exc
             /\ threads' = threads /\ messages' = messages]_vars

\* the database failed in load_thread_items on a thread that has messages:
\* the caller got an empty page and no exception
C23_Witness ==
    /\ ret[1].op = "load_thread_items"
    /\ ret[1].failed = "OperationalError"
    /\ ret[1].err = None
    /\ ret[1].result.data = <<>>
    /\ \E m \in messages : m.thread_id = ret[1].thread_id
\* the statuses the chat endpoint answers a credential the authority rejects
InvalidCredentialStatuses ==
    {auth_failure_response(validate_session(a, None)).status_code :
        a \in {"status not 200", "no user"}}

\* C24: when the identity authority times out, the client of the chat
\* endpoint gets a status different from the one of an invalid or expired
\* credential
C24_TimeoutHasOwnStatus ==
    [][\A p \in Procs :
        ValidateSessionFails(p, "timeout") =>
            response'.status_code \notin InvalidCredentialStatuses]_vars

\* a step that answers a request with 401
Answers401(p) ==
    \/ response' # response /\ response'.status_code = 401
    \/ \E a \in AuthorityAnswers : ValidateSessionFails(p, a)
    \/ \E h \in {"absent", "not bearer"} : ChatkitEndpointNoBearer(p, h)

GenericMessages ==
    {"Please login to use the chatbot. Authentication is required.",
     "Invalid or expired session. Please login again.",
     "Rate limit exceeded. Maximum 60 requests per minute.",
     "An unexpected error occurred. Please try again later."}

\* C26: every error response of the chat endpoint carries one of the fixed
\* generic messages, never the text of an exception
C26_GenericMessages ==
    response = NoResponse \/ response.message \in GenericMessages

\* what validate_client_secret answers for a secret in this state
Validates(k) == validate_client_secret(session_store, k, clock).user_id

\* the user a secret was issued for while it is neither taken away by a
\* refresh or a revocation nor past its expiry, None otherwise
LiveOwner(k) ==
    IF /\ session_log[k].user_id # None
       /\ ~session_log[k].gone
       /\ ~(session_log[k].expires_at < clock)
    THEN session_log[k].user_id
    ELSE None

\* C27: after any sequence of session operations and any passage of time,
\* validating a secret returns user u exactly when the secret was issued
\* for u, was not refreshed away or revoked and has not expired, and
\* returns None otherwise
C27_ValidateIffLive ==
    \A k \in ClientSecrets : Validates(k) = LiveOwner(k)

\* a secret issued for a user, never refreshed or revoked, was validated
\* after its expiry and the answer was None
C27_Witness ==
    /\ session_result.op = "validate_client_secret"
    /\ session_result.user_id = None
    /\ session_log[session_result.client_secret].user_id \in Users
    /\ ~session_log[session_result.client_secret].gone
    /\ session_log[session_result.client_secret].expires_at < clock

\* process p's handler of a refresh or a revocation answers on this step
SessionAnswers(p) ==
    /\ pc[p] # "idle"
    /\ pc'[p] = "idle"
    /\ local[p].op \in {"refresh_session", "delete_session"}
    /\ session_result'.op = local[p].op

\* C28: a refresh by the session's owner makes, in the one step, the old
\* secret invalid and a new secret valid for the same user; a refresh by
\* another caller or of an unknown or expired secret is answered 401,
\* generates no secret and leaves every secret's validity as it was
C28_RefreshInOneStep ==
    [][\A p \in Procs :
        (SessionAnswers(p) /\ local[p].op = "refresh_session") =>
            LET k   == local[p].client_secret
                u   == local[p].user_id
                new == session_result'.new_secret
            IN  IF Validates(k) = u
                THEN /\ session_result'.status_code = 200
                     /\ new \in ClientSecrets \ {k}
                     /\ Validates(new) = None
                     /\ validate_client_secret(session_store', new, clock').user_id = u
                     /\ validate_client_secret(session_store', k, clock').user_id = None
                ELSE /\ session_result'.status_code = 401
                     /\ nsecret' = nsecret
                     /\ \A j \in ClientSecrets :
                           validate_client_secret(session_store', j, clock').user_id
                               = Validates(j)]_vars

\* a refresh by the owner succeeded: the new secret validates, the old one
\* does not
C28_Witness ==
    /\ session_result.op = "refresh_session"
    /\ session_result.status_code = 200
    /\ Validates(session_result.new_secret) = session_result.user_id
    /\ Validates(session_result.client_secret) = None

BadRole(role) == role \notin {"user", "assistant"}
BadContent(content) == StrLen(content) < 1 \/ StrLen(content) > 100000

\* C30: every stored message has the role 'user' or 'assistant', a content
\* of 1 to 100,000 characters and a sequence number of at least 1; an
\* add_thread_item or save_item whose extracted role or content is outside
\* of that stores nothing and raises
C30_StoredMessagesValid ==
    [][/\ \A m \in messages' :
              /\ ~BadRole(m.role)
              /\ ~BadContent(m.content)
              /\ m.sequence_number >= 1
       /\ \A i \in SchemaItems :
              /\ (AddThreadItem(1, "t1", i)
                  /\ (BadRole(ExtractRole(i))
                      \/ BadContent(ExtractContent(i, PlaceholderAdd)))) =>
                     (messages' = messages /\ ret'[1].err # None)
              /\ (SaveItem(1, "t1", i)
                  /\ (BadRole(ExtractRole(i))
                      \/ BadContent(ExtractContent(i, PlaceholderSave)))) =>
                     (messages' = messages /\ ret'[1].err # None)]_vars

\* an item with a generated identifier was refused by the schema while the
\* thread held a message
C30_Witness ==
    /\ ret[1].op \in {"add_thread_item", "save_item"}
    /\ ret[1].err = "IntegrityError"
    /\ ret[1].item_id \notin ClientItemIds
    /\ threads # {}
    /\ messages # {}

\* thread rows written on this step, and threads a message row was written
\* into on this step
Mutated(t) ==
    \/ t \notin threads
    \/ \E m \in messages' \ messages : m.thread_id = t.thread_id

RespondSteps == rpc' # rpc \/ revents' # revents \/ rexc' # rexc

\* C32: in the relay step respond yields the events of the agent stream as
\* they are, each once and in the order produced (the k-th event yielded is
\* the k-th event of the stream, and only an error event of respond can
\* follow them), and no step of respond writes to the store
C32_RelayVerbatim ==
    [][/\ \A k \in 1..Len(revents') :
              \/ revents'[k] = AgentEvent(k)
              \/ revents'[k].type = "error" /\ k = Len(revents')
       /\ (rpc = "relay" /\ revents' # revents /\ rpc' = "relay") =>
              revents' = Append(revents, AgentEvent(Len(revents) + 1))
       /\ (rpc # "idle" /\ RespondSteps) =>
              (threads' = threads /\ messages' = messages)]_vars

\* two events were relayed, the agent stored its message meanwhile, and
\* respond ended
C32_Witness ==
    /\ rpc = "done"
    /\ Len(revents) = 2
    /\ revents[1] = AgentEvent(1)
    /\ revents[2] = AgentEvent(2)
    /\ messages # rsnap

\* process 1's call on this step stored a message under a generated identifier
StoredPlaceholder ==
    /\ nuuid' = nuuid + 1
    /\ ret'[1].op \in {"add_thread_item", "save_item"}
    /\ ret'[1].err = None

\* C33: no stored message has the identifier "__fake_id__"; an item carrying
\* it is stored, by add_thread_item and by save_item, as a new message under
\* an identifier no stored message has, so two such items are two messages
C33_PlaceholderReplaced ==
    [][/\ \A m \in messages' : m.message_id # "__fake_id__"
       /\ StoredPlaceholder =>
              /\ ret'[1].item_id \notin { m.message_id : m \in messages } \cup {"__fake_id__"}
              /\ Cardinality(messages') = Cardinality(messages) + 1
              /\ messages \subseteq messages'
              /\ \E m \in messages' \ messages : m.message_id = ret'[1].item_id]_vars

\* two items with the placeholder identifier are stored in thread t1 as two
\* messages with generated identifiers
C33_Witness ==
    /\ nuuid = 2
    /\ Cardinality({ m \in ThreadRows("t1") : m.message_id \notin ClientItemIds }) = 2

\* the identifiers of the items of a page, in order
PageIds(page) == [i \in 1..Len(page.data) |-> page.data[i].id]

\* the identifiers of the messages of thread t past sequence number k in
\* the order asked for, cut at limit
PastIds(t, k, order, limit) ==
    LET past == { m \in ThreadRows(t) :
                     IF order = "asc" THEN m.sequence_number > k
                     ELSE m.sequence_number < k }
        all  == OrderBySeq(past, order)
    IN  [i \in 1..(IF Len(all) > limit THEN limit ELSE Len(all)) |-> all[i].message_id]

\* C34: for every stored message of a thread, with sequence number k, and
\* either order, load_thread_items with the cursor k and with the cursor
\* given as the message's identifier return the same page: the messages
\* after k (ascending) or before k (descending)
C34_CursorFormsAgree ==
    \A t \in ThreadIds : \A m \in ThreadRows(t) :
        \A order \in {"asc", "desc"}, limit \in 1..MaxRows :
            LET by_seq == load_thread_items(messages, t, limit,
                                            SeqCursor(m.sequence_number), order)
                by_id  == load_thread_items(messages, t, limit,
                                            IdCursor(m.message_id), order)
            IN  /\ by_seq = by_id
                /\ PageIds(by_id) = PastIds(t, m.sequence_number, order, limit)

\* a page asked for with a message's identifier as cursor came back with the
\* messages behind that message, as the page asked for by number would
C34_Witness ==
    /\ ret[1].op = "load_thread_items"
    /\ ret[1].after.kind = "id"
    /\ ret[1].page.data # <<>>
    /\ \E m \in ThreadRows(ret[1].thread_id) :
          /\ m.message_id = ret[1].after.id
          /\ ret[1].page = load_thread_items(messages, ret[1].thread_id, ret[1].limit,
                                             SeqCursor(m.sequence_number), "asc")

\* no stored message has this identifier
Unresolved(id) == \A m \in messages : m.message_id # id

\* C35: load_thread_items called with a cursor identifier that no stored
\* message has (the cursor message was deleted since the page before)
\* filters nothing and returns the first page of the thread, in either
\* order, and neither an error nor an empty page of a thread with messages
C35_LostCursorRestarts ==
    [][/\ \A id \in KnownIds, order \in {"asc", "desc"}, n \in 1..2 :
              Unresolved(id) =>
                  load_thread_items(messages, "t1", n, IdCursor(id), order)
                      = load_thread_items(messages, "t1", n, NoCursor, order)
       /\ \A n \in 1..2 :
              (LoadThreadItems(1, "t1", n, TRUE) /\ Unresolved(ret[1].page.after)) =>
                  /\ ret'[1].err = None
                  /\ PageIds(ret'[1].page) = PastIds("t1", 0, "asc", n)
                  /\ ThreadRows("t1") # {} => ret'[1].page.data # <<>>]_vars

\* the client's cursor message was deleted by the writer, and the client's
\* next call returned messages from the start of the thread
C35_Witness ==
    /\ ret[1].op = "load_thread_items"
    /\ ret[1].after.kind = "id"
    /\ Unresolved(ret[1].after.id)
    /\ ret[2].op = "delete_thread_item"
    /\ ret[2].err = None
    /\ ret[2].item_id = ret[1].after.id
    /\ ret[1].page.data # <<>>
    /\ PageIds(ret[1].page) = PastIds("t1", 0, "asc", ret[1].limit)

\* the identifiers of the messages of thread t among msgs, in ascending
\* order of their sequence numbers
Listing(msgs, t) ==
    LET rows == OrderBySeq({ m \in msgs : m.thread_id = t }, "asc")
    IN  [i \in 1..Len(rows) |-> rows[i].message_id]

\* the identifiers of s that msgs still holds, in the order of s
Surviving(s, msgs) ==
    LET held(id) == \E m \in msgs : m.message_id = id
    IN  SelectSeq(s, held)

C37_RaiseMeansNoChange ==
    [][(/\ ret'[1] # ret[1]
        /\ ret'[1].op \in StoreWrites
        /\ ret'[1].err # None) =>
           (threads' = threads /\ messages' = messages)]_vars

\* the thread rows of a user, and the messages of that user's threads
RowsOf(thrs, msgs, u) ==
    [threads  |-> { t \in thrs : t.user_id = u },
     messages |-> { m \in msgs : \E t \in thrs : t.user_id = u /\ t.thread_id = m.thread_id }]

\* C38: no store mutation requested under the context of user B (here
\* save_thread with the identifier of a stored thread) changes a thread
\* owned by user A or a message of such a thread
C38_OtherUsersThreadsUntouched ==
    [][\A t \in ThreadIds, u \in Callers :
          ((\E x \in threads : x.thread_id = t)
              /\ SaveThread(1, ThreadMetadata(t, u, Empty), "B")) =>
              RowsOf(threads', messages', "A") = RowsOf(threads, messages, "A")]_vars

\* process p's save_item reaches its INSERT on this step while a row with
\* its identifier is stored: its insert lost the race
LostInsert(p) ==
    /\ pc[p] = "save_item_insert"
    /\ pc'[p] = "idle"
    /\ \E m \in messages : m.message_id = local[p].item_id

\* C39: with save_item calls running concurrently, an identifier has at
\* most one row and a thread no two rows with one sequence number; a
\* save_item whose insert comes after another call stored the identifier
\* raises and adds no row
C39_OneRowPerIdentifier ==
    [][/\ \A m, o \in messages' :
              (m.message_id = o.message_id
               \/ (m.thread_id = o.thread_id /\ m.sequence_number = o.sequence_number))
                  => m = o
       /\ \A p \in Procs :
              LostInsert(p) => (ret'[p].err # None /\ messages' = messages)]_vars

\* two save_item calls for the identifier m1 both found no row; one
\* inserted it, the other one raised
C39_Witness ==
    \E p, q \in Procs :
        /\ ret[p].op = "save_item" /\ ret[p].err = None
        /\ ret[p].item_id = "m1" /\ ~ret[p].updated
        /\ ret[q].op = "save_item" /\ ret[q].err = "IntegrityError"
        /\ ret[q].item_id = "m1" /\ ~ret[q].updated
        /\ Cardinality({ m \in messages : m.message_id = "m1" }) = 1

\* C40: a delete_session by a caller who does not own the session, or of an
\* unknown or expired secret, is answered 401 and leaves every secret's
\* validity as it was; a delete_session by the owner is answered 200, and
\* on every later step, whatever is requested and however much time
\* passes, a secret that does not validate does not come to validate unless
\* it is the one being issued
C40_RevokeOnlyByOwner ==
    [][/\ \A p \in Procs :
            (SessionAnswers(p) /\ local[p].op = "delete_session") =>
                LET k == local[p].client_secret
                    u == local[p].user_id
                IN  IF Validates(k) = u
                    THEN /\ session_result'.status_code = 200
                         /\ validate_client_secret(session_store', k, clock').user_id = None
                         /\ \A j \in ClientSecrets \ {k} :
                               validate_client_secret(session_store', j, clock').user_id
                                   = Validates(j)
                    ELSE /\ session_result'.status_code = 401
                         /\ \A j \in ClientSecrets :
                               validate_client_secret(session_store', j, clock').user_id
                                   = Validates(j)
       /\ (session_store' # session_store \/ clock' # clock) =>
            \A j \in ClientSecrets :
                (j <= nsecret /\ Validates(j) = None) =>
                    validate_client_secret(session_store', j, clock').user_id = None]_vars

\* a caller who does not own a session asked to delete it and was answered
\* 401; the session still validates for its owner
C40_Witness ==
    /\ session_result.op = "delete_session"
    /\ session_result.status_code = 401
    /\ Validates(session_result.client_secret) \in Users \ {session_result.user_id}

====
